---- MODULE Spec2Model ----
(***************************************************************************)
(* Verification model of the indexing and query-evaluation engine:         *)
(*   index/builders.py, index/access.py, query_processing/*.py             *)
(*                                                                         *)
(* A Python string is a sequence of one-character strings, so that         *)
(* slicing, regular expressions and lexicographic order are computed.      *)
(* A lookup key is <<tag, tokens>>: tag "s" for a str key (one token),      *)
(* tag "t" for a tuple key; the tag keeps  "a"  and  ("a",)  distinct.      *)
(***************************************************************************)
EXTENDS Integers, Sequences, FiniteSets, TLC

VARIABLES disk,      \* path -> persisted package, or NoPkg
          cache,     \* index/access.py _INDEX_CACHE: path -> package, or NoPkg
          built,     \* history: path -> the (docs, ids) of the last build written there
          call,      \* the last operation and its arguments
          res,       \* what the last operation returned or raised
          given,     \* history: the structured input the last call's string was written from
          META_CACHE, \* ranking/rankers.py _META_CACHE: path -> metadata, or NoMeta
          DF_CACHE   \* ranking/rankers.py _DF_CACHE: <<path, term>> -> document frequency

vars == <<disk, cache, built, call, res, given, META_CACHE, DF_CACHE>>

(***************************************************************************)
(* Bounds of the explored inputs                                           *)
(***************************************************************************)
MaxDocs == 2
MaxDocLen == 3
MaxTokens == 4

(***************************************************************************)
(* Characters and strings                                                  *)
(***************************************************************************)
\* the characters used, in code-point order (Python compares str by code point)
Alphabet == <<" ", "\"", "$", "(", ")", "*", "/", "0", "1", "2", "3",
              "A", "B", "D", "E", "N", "O", "R", "T", "X",
              "a", "b", "c", "d", "e", "n", "o", "r", "t", "x">>

Ord(c) == CHOOSE i \in 1..Len(Alphabet) : Alphabet[i] = c

Range(s) == {s[i] : i \in 1..Len(s)}

\* s[i:j] with 0-based Python slice bounds, 0 <= i, clipped at len(s)
Slice(s, i, j) ==
    LET hi == IF j > Len(s) THEN Len(s) ELSE j
    IN  IF i >= hi THEN <<>> ELSE SubSeq(s, i + 1, hi)

\* str < str
RECURSIVE StrLess(_, _)
StrLess(s, t) ==
    IF t = <<>> THEN FALSE
    ELSE IF s = <<>> THEN TRUE
    ELSE IF Ord(Head(s)) < Ord(Head(t)) THEN TRUE
    ELSE IF Ord(Head(s)) > Ord(Head(t)) THEN FALSE
    ELSE StrLess(Tail(s), Tail(t))

IntLess(a, b) == a < b

\* sorted(set) for a set of integers
RECURSIVE SortedInts(_)
SortedInts(S) ==
    IF S = {} THEN <<>>
    ELSE LET m == CHOOSE x \in S : \A y \in S : x <= y
         IN  <<m>> \o SortedInts(S \ {m})

\* sorted(set) for a set of str
RECURSIVE SortedStrs(_)
SortedStrs(S) ==
    IF S = {} THEN <<>>
    ELSE LET m == CHOOSE x \in S : \A y \in S : x = y \/ StrLess(x, y)
         IN  <<m>> \o SortedStrs(S \ {m})

\* positions left in the order they were appended
SortList_insertion_order(l) == l

\* list.sort() for a list of integers (duplicates are kept)
SortList(l) == SortSeq(l, IntLess)

StrKey(tok) == <<"s", <<tok>>>>
TupKey(toks) == <<"t", toks>>

(***************************************************************************)
(* index/builders.py                                                       *)
(***************************************************************************)
NGRAMS_MAX == 3
CHAR_NGRAMS_MAX == 3

\* ngrams_of_n with range(L - n): the last start offset of each n is lost
ngrams_of_n_short(tokens, n) ==
    [j \in 1..(Len(tokens) - n) |->
        <<IF n = 1 THEN StrKey(tokens[j]) ELSE TupKey(SubSeq(tokens, j, j + n - 1)),
          j - 1>>]

\* the (key, pos) pairs of one n, in yield order
ngrams_of_n(tokens, n) ==
    [j \in 1..(Len(tokens) - n + 1) |->
        <<IF n = 1 THEN StrKey(tokens[j]) ELSE TupKey(SubSeq(tokens, j, j + n - 1)),
          j - 1>>]

\* _token_ngrams: the generator's yields for n = 1..n_max, stopping at L < n
RECURSIVE token_ngrams_from(_, _, _)
token_ngrams_from(tokens, n, n_max) ==
    IF n > n_max \/ Len(tokens) < n THEN <<>>
    ELSE ngrams_of_n(tokens, n) \o token_ngrams_from(tokens, n + 1, n_max)

token_ngrams(tokens, n_max) == token_ngrams_from(tokens, 1, n_max)

\* _char_ngrams: the generator's yields, the bare "$" skipped
RECURSIVE char_ngrams_from(_, _, _)
char_ngrams_from(s, n, n_max) ==
    IF n > n_max THEN <<>>
    ELSE LET all == [j \in 1..(Len(s) - n + 1) |-> SubSeq(s, j, j + n - 1)]
         IN  SelectSeq(all, LAMBDA cg : cg # <<"$">>)
             \o char_ngrams_from(s, n + 1, n_max)

\* char_ngrams over the bare term, without the "$" boundaries
char_ngrams_unaugmented(term, n_max) == char_ngrams_from(term, 1, n_max)

char_ngrams(term, n_max) == char_ngrams_from(<<"$">> \o term \o <<"$">>, 1, n_max)

\* dict.get(k) with a default
Get(d, k, default) == IF k \in DOMAIN d THEN d[k] ELSE default

\* d[k] = v on a dict
Put(d, k, v) == (k :> v) @@ d

EmptyDict == [x \in {} |-> {}]

\* lines 87-104: the n-gram loop of one document, after its first n yields
RECURSIVE add_token_ngrams(_, _, _, _)
add_token_ngrams(acc, grams, n, did) ==
    IF n = 0 THEN acc
    ELSE LET prev == add_token_ngrams(acc, grams, n - 1, did)
             key == grams[n][1]
             pos == grams[n][2]
             bucket == Get(prev.unified_sets, key, {})
             docmap == Get(prev.proximity, key, EmptyDict)
             pos_list == Get(docmap, did, <<>>)
         IN  [prev EXCEPT !.unified_sets = Put(@, key, bucket \cup {did}),
                          !.proximity = Put(@, key, Put(docmap, did, Append(pos_list, pos)))]

\* lines 107-113: for term in set(tokens): for cg in _char_ngrams(term, ...):
\* wildcard_sets.setdefault(cg, set()).add(term); adding terms to sets does
\* not depend on the order of the terms or of the yielded n-grams
add_terms(wildcard_sets, terms) ==
    LET grams_of == [term \in terms |-> Range(char_ngrams(term, CHAR_NGRAMS_MAX))]
    IN  [cg \in UNION {grams_of[term] : term \in terms} |->
            Get(wildcard_sets, cg, {}) \cup {term \in terms : cg \in grams_of[term]}]
        @@ wildcard_sets

\* lines 81-113: the single pass over zip(tokenized_docs, doc_ids), after
\* its first n documents
RECURSIVE single_pass(_, _, _, _)
single_pass(acc, tokenized_docs, doc_ids, n) ==
    IF n = 0 THEN acc
    ELSE LET prev == single_pass(acc, tokenized_docs, doc_ids, n - 1)
             tokens == tokenized_docs[n]
             did == doc_ids[n]
             grams == token_ngrams(tokens, NGRAMS_MAX)
             a2 == add_token_ngrams(prev, grams, Len(grams), did)
         IN  [total_len |-> prev.total_len + Len(tokens),
              doc_lengths |-> Put(prev.doc_lengths, did, Len(tokens)),
              unified_sets |-> a2.unified_sets,
              proximity |-> a2.proximity,
              wildcard_sets |-> add_terms(prev.wildcard_sets, Range(tokens))]

\* lines 117-142: post-processing and the package; avgdl is kept as the
\* exact fraction <<total_len, N>> (0.0 is <<0, 1>>)
build_package(tokenized_docs, doc_ids) ==
    LET N == Len(tokenized_docs)
        acc == single_pass([unified_sets |-> EmptyDict, proximity |-> EmptyDict,
                            wildcard_sets |-> EmptyDict, doc_lengths |-> EmptyDict,
                            total_len |-> 0],
                           tokenized_docs, doc_ids, Len(tokenized_docs))
    IN  [META |-> [N |-> N,
                   doc_lengths |-> acc.doc_lengths,
                   avgdl |-> IF N > 0 THEN <<acc.total_len, N>> ELSE <<0, 1>>,
                   ngrams_max |-> NGRAMS_MAX,
                   char_ngrams_max |-> CHAR_NGRAMS_MAX],
         unified |-> [k \in DOMAIN acc.unified_sets |-> SortedInts(acc.unified_sets[k])],
         wildcard |-> [cg \in DOMAIN acc.wildcard_sets |-> SortedStrs(acc.wildcard_sets[cg])],
         proximity |-> [k \in DOMAIN acc.proximity |->
                          [d \in DOMAIN acc.proximity[k] |-> SortList(acc.proximity[k][d])]]]

NoPkg == [missing |-> TRUE]
NoMeta == [missing |-> TRUE]
NoIds == [none |-> TRUE, v |-> <<>>]
Ids(v) == [none |-> FALSE, v |-> v]

Returned(v) == [ok |-> TRUE, val |-> v]
Raised(e) == [ok |-> FALSE, err |-> e]

\* default_ids counting from 1
default_ids_from_one(doc_ids, tokenized_docs) ==
    IF doc_ids.none THEN [i \in 1..Len(tokenized_docs) |-> i] ELSE doc_ids.v

\* lines 63-64: doc_ids defaults to range(len(tokenized_docs))
default_ids(doc_ids, tokenized_docs) ==
    IF doc_ids.none THEN [i \in 1..Len(tokenized_docs) |-> i - 1] ELSE doc_ids.v

\* create_all_indexes(tokenized_docs, index_path, doc_ids)
create_all_indexes(tokenized_docs, index_path, doc_ids) ==
    LET ids == default_ids(doc_ids, tokenized_docs)
    IN  /\ call' = [op |-> "create_all_indexes", path |-> index_path,
                    ndocs |-> Len(tokenized_docs), ids_given |-> ~doc_ids.none,
                    nids |-> Len(doc_ids.v)]
        /\ IF Len(ids) # Len(tokenized_docs)
           THEN /\ res' = Raised("ValueError")
                /\ UNCHANGED <<disk, built>>
           ELSE /\ disk' = [disk EXCEPT ![index_path] = build_package(tokenized_docs, ids)]
                /\ built' = [built EXCEPT ![index_path] = [docs |-> tokenized_docs, ids |-> ids]]
                /\ res' = Returned("None")
        /\ UNCHANGED <<cache, META_CACHE, DF_CACHE>>

(***************************************************************************)
(* index/access.py                                                         *)
(***************************************************************************)
\* _load_index: what it returns, whether it raises, and the cache it leaves
load_raises(index_path) == cache[index_path] = NoPkg /\ disk[index_path] = NoPkg

\* load_index reading storage whenever a file is there
load_index_rereading(index_path) ==
    IF disk[index_path] # NoPkg THEN disk[index_path] ELSE cache[index_path]

load_index(index_path) ==
    IF cache[index_path] # NoPkg THEN cache[index_path] ELSE disk[index_path]

cache_after_load(index_path) ==
    IF cache[index_path] = NoPkg /\ disk[index_path] # NoPkg
    THEN [cache EXCEPT ![index_path] = disk[index_path]]
    ELSE cache

\* get_posting_list, on the loaded package
posting_list(package, term) == Get(package.unified, term, <<>>)

\* find_wildcard_matches, on the loaded package
wildcard_matches(package, pattern) == Get(package.wildcard, pattern, <<>>)

\* get_term_positions, on the loaded package
term_positions(package, term, doc_id) ==
    Get(Get(package.proximity, term, EmptyDict), doc_id, <<>>)

get_posting_list(term, index_path) ==
    /\ call' = [op |-> "get_posting_list", key |-> term, path |-> index_path]
    /\ res' = IF load_raises(index_path) THEN Raised("FileNotFoundError")
              ELSE Returned(posting_list(load_index(index_path), term))
    /\ cache' = cache_after_load(index_path)
    /\ UNCHANGED <<disk, built, META_CACHE, DF_CACHE>>

find_wildcard_matches(pattern, index_path) ==
    /\ call' = [op |-> "find_wildcard_matches", gram |-> pattern, path |-> index_path]
    /\ res' = IF load_raises(index_path) THEN Raised("FileNotFoundError")
              ELSE Returned(wildcard_matches(load_index(index_path), pattern))
    /\ cache' = cache_after_load(index_path)
    /\ UNCHANGED <<disk, built, META_CACHE, DF_CACHE>>

\* get_term_positions subscripting the maps instead of calling get()
get_term_positions_subscripting(term, doc_id, index_path) ==
    /\ call' = [op |-> "get_term_positions", key |-> term, did |-> doc_id,
                path |-> index_path]
    /\ res' = IF load_raises(index_path) THEN Raised("FileNotFoundError")
              ELSE IF term \in DOMAIN load_index(index_path).proximity
                      /\ doc_id \in DOMAIN load_index(index_path).proximity[term]
              THEN Returned(load_index(index_path).proximity[term][doc_id])
              ELSE Raised("KeyError")
    /\ cache' = cache_after_load(index_path)
    /\ UNCHANGED <<disk, built, META_CACHE, DF_CACHE>>

get_term_positions(term, doc_id, index_path) ==
    /\ call' = [op |-> "get_term_positions", key |-> term, did |-> doc_id,
                path |-> index_path]
    /\ res' = IF load_raises(index_path) THEN Raised("FileNotFoundError")
              ELSE Returned(term_positions(load_index(index_path), term, doc_id))
    /\ cache' = cache_after_load(index_path)
    /\ UNCHANGED <<disk, built, META_CACHE, DF_CACHE>>

(***************************************************************************)
(* Building and looking up: every corpus over a two-term vocabulary        *)
(***************************************************************************)
Paths == {"p1"}

ta == <<"a">>
tab == <<"a", "b">>
Vocab == {ta, tab}

\* all sequences over S of length 0..n
RECURSIVE SeqsUpTo(_, _)
SeqsUpTo(S, n) ==
    IF n = 0 THEN {<<>>}
    ELSE LET shorter == SeqsUpTo(S, n - 1)
         IN  shorter \cup {Append(s, x) : s \in {t \in shorter : Len(t) = n - 1}, x \in S}

BuildDocs == SeqsUpTo(Vocab, MaxDocLen)
RECURSIVE TotalLen(_)
TotalLen(docs) == IF docs = <<>> THEN 0 ELSE Len(Head(docs)) + TotalLen(Tail(docs))

\* every corpus of at most MaxDocs documents and MaxTokens tokens in all
BuildCorpora == {c \in SeqsUpTo(BuildDocs, MaxDocs) : TotalLen(c) <= MaxTokens}
IdPool == {3, 7}
BuildIds == {NoIds} \cup {Ids(v) : v \in SeqsUpTo(IdPool, MaxDocs)}
AllIds == IdPool \cup 0..MaxDocs

\* every key of 1..3 vocabulary tokens, and two keys the builder never stores
VocabKeys == {StrKey(t) : t \in Vocab}
             \cup {TupKey(s) : s \in {u \in SeqsUpTo(Vocab, NGRAMS_MAX) : Len(u) >= 2}}
ProbeKeys == {TupKey(<<ta, tab>>)}
ProbeGrams == {<<"a">>}
ProbePositions == {<<StrKey(ta), 3>>}

NoCall == [op |-> "none"]
NoInput == <<>>

Init ==
    /\ disk = [p \in Paths |-> NoPkg]
    /\ cache = [p \in Paths |-> NoPkg]
    /\ built = [p \in Paths |-> NoPkg]
    /\ call = NoCall
    /\ res = Returned("None")
    /\ given = NoInput
    /\ META_CACHE = [p \in Paths |-> NoMeta]
    /\ DF_CACHE = EmptyDict

\* a fresh process builds one package, then looks it up
BuildStep ==
    /\ call = NoCall
    /\ \E docs \in BuildCorpora, ids \in BuildIds, p \in Paths :
          /\ create_all_indexes(docs, p, ids)
          /\ given' = NoInput

PostingStep ==
    \E k \in ProbeKeys, p \in Paths : get_posting_list(k, p) /\ given' = NoInput

WildcardGramStep ==
    \E g \in ProbeGrams, p \in Paths : find_wildcard_matches(g, p) /\ given' = NoInput

PositionsStep ==
    \E kd \in ProbePositions, p \in Paths :
        get_term_positions(kd[1], kd[2], p) /\ given' = NoInput

Next == BuildStep \/ PostingStep \/ WildcardGramStep \/ PositionsStep

Spec == Init /\ [][Next]_vars

(***************************************************************************)
(* Reference notions, read off the documents themselves                    *)
(***************************************************************************)
\* the 0-based offsets at which toks occurs in doc as a contiguous span
Offsets(doc, toks) ==
    {q \in 0..(Len(doc) - Len(toks)) : SubSeq(doc, q + 1, q + Len(toks)) = toks}

\* the IDs of the documents of a corpus that contain toks
DocsContaining(corpus, toks) ==
    {corpus.ids[i] : i \in {j \in 1..Len(corpus.docs) : Offsets(corpus.docs[j], toks) # {}}}

StrictlyAscending(l) == \A i \in 1..Len(l), j \in 1..Len(l) : i < j => l[i] < l[j]

StrictlyAscendingStrs(l) ==
    \A i \in 1..Len(l), j \in 1..Len(l) : i < j => StrLess(l[i], l[j])

\* the list l is exactly the ascending enumeration of the set S
AscendingListOf(l, S) == StrictlyAscending(l) /\ Range(l) = S

IsSubstring(g, s) == \E q \in 0..(Len(s) - Len(g)) : SubSeq(s, q + 1, q + Len(g)) = g

Augmented(t) == <<"$">> \o t \o <<"$">>

CorpusTerms(corpus) == UNION {Range(corpus.docs[i]) : i \in 1..Len(corpus.docs)}

\* create_all_indexes has just written the package at p
JustBuilt(p) == call.op = "create_all_indexes" /\ call.path = p /\ res.ok

\* every character n-gram of length 1..3 over the characters of the vocabulary
GramChars == {"$", "a", "b", "x"}
AllGrams == {g \in SeqsUpTo(GramChars, CHAR_NGRAMS_MAX) : Len(g) >= 1}

(***************************************************************************)
(* C1: after create_all_indexes, the posting list of every key of 1..3     *)
(* tokens is exactly the ascending list of the IDs of the documents that   *)
(* contain the key as a contiguous n-gram, for every key of the package    *)
(* and for what get_posting_list returned.                                 *)
(***************************************************************************)
C1_PostingsExact ==
    /\ \A p \in Paths : JustBuilt(p) =>
          \A k \in VocabKeys :
              AscendingListOf(posting_list(disk[p], k), DocsContaining(built[p], k[2]))
    /\ (call.op = "get_posting_list" /\ res.ok) =>
          AscendingListOf(res.val, DocsContaining(built[call.path], call.key[2]))

\* a bigram looked up in a corpus whose IDs were supplied in descending order
C1_Witness ==
    /\ call.op = "get_posting_list" /\ res.ok
    /\ call.key = TupKey(<<ta, tab>>)
    /\ built[call.path].ids = <<7, 3>>
    /\ res.val = <<3, 7>>

(***************************************************************************)
(* C2: in every package every posting list, every wildcard term list and   *)
(* every per-document position list is strictly ascending, for every       *)
(* doc_ids sequence of matching length.                                    *)
(***************************************************************************)
C2_AllListsStrictlyAscending ==
    \A p \in Paths : JustBuilt(p) =>
        /\ \A k \in DOMAIN disk[p].unified : StrictlyAscending(disk[p].unified[k])
        /\ \A g \in DOMAIN disk[p].wildcard : StrictlyAscendingStrs(disk[p].wildcard[g])
        /\ \A k \in DOMAIN disk[p].proximity :
              \A d \in DOMAIN disk[p].proximity[k] :
                  StrictlyAscending(disk[p].proximity[k][d])

(***************************************************************************)
(* C3: after create_all_indexes, get_term_positions(key, doc_id) is        *)
(* exactly the ascending list of the offsets at which the key occurs in    *)
(* the document indexed under doc_id, and [] when it does not occur there. *)
(***************************************************************************)
C3_PositionsExact ==
    \A p \in Paths : JustBuilt(p) =>
        \A i \in 1..Len(built[p].docs), k \in VocabKeys :
            AscendingListOf(term_positions(disk[p], k, built[p].ids[i]),
                            Offsets(built[p].docs[i], k[2]))

(***************************************************************************)
(* C4: after create_all_indexes, find_wildcard_matches(g) for a character  *)
(* n-gram g of length 1..3 is exactly the lexicographically ascending list *)
(* of the distinct corpus tokens t with g a substring of $t$, and [] for   *)
(* the bare "$".                                                           *)
(***************************************************************************)
WildcardTerms(corpus, g) ==
    IF g = <<"$">> THEN {}
    ELSE {t \in CorpusTerms(corpus) : IsSubstring(g, Augmented(t))}

Letters == {"A", "B", "D", "E", "N", "O", "R", "T", "X",
            "a", "b", "c", "d", "e", "n", "o", "r", "t", "x"}
Uppers == {"A", "B", "D", "E", "N", "O", "R", "T", "X"}
Digits == {"0", "1", "2", "3"}

\* \s
IsSpace(c) == c = " "

\* \w
IsWordChar(c) == c \in Letters \cup Digits

\* \b at 0-based position i of s
WordBoundary(s, i) ==
    (i > 0 /\ IsWordChar(s[i])) # (i < Len(s) /\ IsWordChar(s[i + 1]))

\* s[i:].startswith(w), 0-based i
StartsAt(s, i, w) == i + Len(w) <= Len(s) /\ SubSeq(s, i + 1, i + Len(w)) = w

kAND == <<"A", "N", "D">>
kOR == <<"O", "R">>
kNOT == <<"N", "O", "T">>
kLP == <<"(">>
kRP == <<")">>

\* str.strip()
RECURSIVE LStrip(_)
LStrip(s) == IF s # <<>> /\ IsSpace(Head(s)) THEN LStrip(Tail(s)) ELSE s

RECURSIVE RStrip(_)
RStrip(s) ==
    IF s # <<>> /\ IsSpace(s[Len(s)]) THEN RStrip(SubSeq(s, 1, Len(s) - 1)) ELSE s

Strip(s) == RStrip(LStrip(s))

\* str.split(): the maximal runs of non-whitespace characters
RECURSIVE SplitFrom(_, _, _)
SplitFrom(s, i, cur) ==
    IF i > Len(s) THEN (IF cur = <<>> THEN <<>> ELSE <<cur>>)
    ELSE IF IsSpace(s[i])
         THEN (IF cur = <<>> THEN <<>> ELSE <<cur>>) \o SplitFrom(s, i + 1, <<>>)
         ELSE SplitFrom(s, i + 1, Append(cur, s[i]))

Split(s) == SplitFrom(s, 1, <<>>)

(***************************************************************************)
(* query_processing/boolean.py                                             *)
(***************************************************************************)
\* the 0-based index of the first '"' at or after i, or -1
RECURSIVE NextQuote(_, _)
NextQuote(s, i) ==
    IF i >= Len(s) THEN -1
    ELSE IF s[i + 1] = "\"" THEN i ELSE NextQuote(s, i + 1)

\* the end (exclusive) of the maximal run of [^()\s] starting at i
RECURSIVE RunEnd(_, _)
RunEnd(s, i) ==
    IF i < Len(s) /\ ~IsSpace(s[i + 1]) /\ s[i + 1] \notin {"(", ")"}
    THEN RunEnd(s, i + 1) ELSE i

KeywordAt(s, i, w) == StartsAt(s, i, w) /\ WordBoundary(s, i) /\ WordBoundary(s, i + Len(w))

\* RE_TOKEN matched at 0-based position i: the end (exclusive) of the match of
\* the first alternative that succeeds there, or -1
token_end_at(s, i) ==
    IF s[i + 1] = "\"" /\ NextQuote(s, i + 1) >= 0 THEN NextQuote(s, i + 1) + 1
    ELSE IF s[i + 1] \in {"(", ")"} THEN i + 1
    ELSE IF KeywordAt(s, i, kAND) THEN i + 3
    ELSE IF KeywordAt(s, i, kOR) THEN i + 2
    ELSE IF KeywordAt(s, i, kNOT) THEN i + 3
    ELSE IF RunEnd(s, i) > i THEN RunEnd(s, i)
    ELSE -1

\* RE_TOKEN.findall(query)
RECURSIVE findall_from(_, _)
findall_from(s, i) ==
    IF i >= Len(s) THEN <<>>
    ELSE LET e == token_end_at(s, i)
         IN  IF e < 0 THEN findall_from(s, i + 1)
             ELSE <<Slice(s, i, e)>> \o findall_from(s, e)

RE_TOKEN_findall(query) == findall_from(query, 0)

IsQuoted(t) == t # <<>> /\ Head(t) = "\"" /\ t[Len(t)] = "\""

\* _as_key of boolean.py; the empty str "" is StrKey(<<>>)
bool_as_key(token_or_phrase) ==
    IF IsQuoted(token_or_phrase)
    THEN LET inside == Strip(Slice(token_or_phrase, 1, Len(token_or_phrase) - 1))
             toks == Split(inside)
         IN  IF inside = <<>> THEN StrKey(<<>>)
             ELSE IF Len(toks) = 1 THEN StrKey(toks[1])
             ELSE TupKey(toks)
    ELSE StrKey(token_or_phrase)

\* _postings_for_key, on the loaded package
postings_for_key(k, package) ==
    IF k = StrKey(<<>>) THEN {} ELSE Range(posting_list(package, k))

IsOperatorOrParen(t) == t \in {kAND, kOR, kNOT, kLP, kRP}

\* the universe taken to be every document of the corpus
collect_universe_whole_corpus(tokens, package) == DOMAIN package.META.doc_lengths

\* _collect_universe
collect_universe(tokens, package) ==
    UNION {postings_for_key(bool_as_key(tokens[i]), package) :
              i \in {j \in 1..Len(tokens) : ~IsOperatorOrParen(tokens[j])}}

\* prec of _to_rpn
prec(t) == IF t = kNOT THEN 3 ELSE IF t = kAND THEN 2 ELSE 1

InPrec(t) == t \in {kAND, kOR, kNOT}

\* the while loops of lines 73-78: pop operators of precedence > p
\* (strict) or >= p from ops onto output
RECURSIVE pop_while(_, _, _, _)
pop_while(output, ops, p, strict) ==
    IF ops # <<>> /\ InPrec(ops[Len(ops)])
       /\ (IF strict THEN prec(ops[Len(ops)]) > p ELSE prec(ops[Len(ops)]) >= p)
    THEN pop_while(Append(output, StrKey(ops[Len(ops)])), SubSeq(ops, 1, Len(ops) - 1), p, strict)
    ELSE [output |-> output, ops |-> ops]

\* the while loop of lines 64-65: pop until "("
RECURSIVE pop_to_paren(_, _)
pop_to_paren(output, ops) ==
    IF ops # <<>> /\ ops[Len(ops)] # kLP
    THEN pop_to_paren(Append(output, StrKey(ops[Len(ops)])), SubSeq(ops, 1, Len(ops) - 1))
    ELSE [output |-> output, ops |-> ops]

\* the final while loop of lines 84-88
RECURSIVE drain_ops(_, _)
drain_ops(output, ops) ==
    IF ops = <<>> THEN Returned(output)
    ELSE IF ops[Len(ops)] \in {kLP, kRP} THEN Raised("ValueError")
    ELSE drain_ops(Append(output, StrKey(ops[Len(ops)])), SubSeq(ops, 1, Len(ops) - 1))

\* the for loop of _to_rpn; an operator in the output is the str of its name
RECURSIVE to_rpn_loop(_, _, _, _)
to_rpn_loop(tokens, i, output, ops) ==
    IF i > Len(tokens) THEN drain_ops(output, ops)
    ELSE LET t == tokens[i]
         IN  IF t = kLP THEN to_rpn_loop(tokens, i + 1, output, Append(ops, t))
             ELSE IF t = kRP
             THEN LET st == pop_to_paren(output, ops)
                  IN  IF st.ops = <<>> THEN Raised("ValueError")
                      ELSE to_rpn_loop(tokens, i + 1, st.output,
                                       SubSeq(st.ops, 1, Len(st.ops) - 1))
             ELSE IF InPrec(t)
             THEN LET st == pop_while(output, ops, prec(t), t = kNOT)
                  IN  to_rpn_loop(tokens, i + 1, st.output, Append(st.ops, t))
             ELSE to_rpn_loop(tokens, i + 1, Append(output, bool_as_key(t)), ops)

to_rpn(tokens) == to_rpn_loop(tokens, 1, <<>>, <<>>)

Pop(stack) == SubSeq(stack, 1, Len(stack) - 1)
Top(stack) == stack[Len(stack)]

\* the end of evaluation returning the top of any non-empty stack
eval_end_top_of_stack(stack) ==
    IF stack = <<>> THEN Raised("ValueError") ELSE Returned(Top(stack))

\* lines 125-127: the end of evaluation
eval_end(stack) ==
    IF Len(stack) # 1 THEN Raised("ValueError") ELSE Returned(stack[1])

\* lines 103-123, one item of the postfix form: every item is compared with
\* the operator names first
eval_step(token, stack, package, universe) ==
    IF token = StrKey(kNOT)
    THEN IF stack = <<>> THEN Raised("ValueError")
         ELSE Returned(Append(Pop(stack), universe \ Top(stack)))
    ELSE IF token = StrKey(kAND)
    THEN IF Len(stack) < 2 THEN Raised("ValueError")
         ELSE Returned(Append(Pop(Pop(stack)), Top(Pop(stack)) \cap Top(stack)))
    ELSE IF token = StrKey(kOR)
    THEN IF Len(stack) < 2 THEN Raised("ValueError")
         ELSE Returned(Append(Pop(Pop(stack)), Top(Pop(stack)) \cup Top(stack)))
    ELSE Returned(Append(stack, postings_for_key(token, package)))

\* _eval_rpn: the loop over the postfix form
RECURSIVE eval_rpn_loop(_, _, _, _, _)
eval_rpn_loop(rpn, i, stack, package, universe) ==
    IF i > Len(rpn)
    THEN eval_end(stack)
    ELSE LET st == eval_step(rpn[i], stack, package, universe)
         IN  IF ~st.ok THEN st
             ELSE eval_rpn_loop(rpn, i + 1, st.val, package, universe)

eval_rpn(rpn, package, universe) == eval_rpn_loop(rpn, 1, <<>>, package, universe)

\* does evaluating the query read the index at all (any get_posting_list call)
bool_reads_index(query) ==
    \E t \in Range(RE_TOKEN_findall(query)) :
        ~IsOperatorOrParen(t) /\ bool_as_key(t) # StrKey(<<>>)

\* process_boolean_query, on the loaded package
boolean_result(query, package) ==
    LET tokens == RE_TOKEN_findall(query)
        U == collect_universe(tokens, package)
        rpn == to_rpn(tokens)
    IN  IF ~rpn.ok THEN rpn ELSE eval_rpn(rpn.val, package, U)

\* what an evaluator returns or raises, given whether it reads the index
package_at(index_path) ==
    IF load_raises(index_path) THEN NoPkg ELSE load_index(index_path)

through_index(reads, index_path, result) ==
    IF reads /\ load_raises(index_path) THEN Raised("FileNotFoundError") ELSE result

process_boolean_query(query, index_path) ==
    /\ call' = [op |-> "process_boolean_query", query |-> query, path |-> index_path]
    /\ res' = through_index(bool_reads_index(query), index_path,
                            boolean_result(query, package_at(index_path)))
    /\ cache' = IF bool_reads_index(query) THEN cache_after_load(index_path) ELSE cache
    /\ UNCHANGED <<disk, built, META_CACHE, DF_CACHE>>

(***************************************************************************)
(* Boolean queries: every well-formed token sequence of bounded length     *)
(***************************************************************************)
MaxQueryTokens == 5

tb == <<"b">>
tc == <<"c">>
tx == <<"x">>

\* a lexical item is <<kind, text, tokens of the operand>>
Operand(text, toks) == <<"operand", text, toks>>
Quote(s) == <<"\"">> \o s \o <<"\"">>
iAND == <<"AND", kAND, <<>>>>
iOR == <<"OR", kOR, <<>>>>
iNOT == <<"NOT", kNOT, <<>>>>
iLP == <<"(", kLP, <<>>>>
iRP == <<")", kRP, <<>>>>

\* bare terms, a two-token phrase, and a one-token phrase spelled like an operator
BoolOperands == {Operand(ta, <<ta>>), Operand(tc, <<tc>>),
                 Operand(Quote(ta \o <<" ">> \o tb), <<ta, tb>>),
                 Operand(Quote(kNOT), <<kNOT>>)}

\* '( climate AND change ) OR science' of the four-document example
ExampleQueries ==
    {<<iLP, Operand(ta, <<ta>>), iAND, Operand(tb, <<tb>>), iRP, iOR, Operand(tc, <<tc>>)>>}

\* the well-formed item sequences of exactly n items:
\*   E ::= operand | NOT E | ( E ) | E AND E | E OR E
RECURSIVE WellFormed(_)
WellFormed(n) ==
    IF n <= 0 THEN {}
    ELSE IF n = 1 THEN {<<o>> : o \in BoolOperands}
    ELSE {<<iNOT>> \o e : e \in WellFormed(n - 1)}
         \cup {<<iLP>> \o e \o <<iRP>> : e \in WellFormed(n - 2)}
         \cup UNION {{l \o <<o>> \o r : l \in WellFormed(i), r \in WellFormed(n - 1 - i),
                                         o \in {iAND, iOR}} : i \in 1..(n - 2)}

BoolQueries == ExampleQueries \cup UNION {WellFormed(n) : n \in 1..MaxQueryTokens}

\* the query text: items separated by one space; when tight, no space
\* inside the parentheses
RECURSIVE Render(_, _)
Render(items, tight) ==
    IF items = <<>> THEN <<>>
    ELSE IF Len(items) = 1 THEN items[1][2]
    ELSE LET glue == IF tight /\ (items[1] = iLP \/ items[2] = iRP) THEN <<>> ELSE <<" ">>
         IN  items[1][2] \o glue \o Render(Tail(items), tight)

\* the four-document example, climate = a, change = b, science = c, and a
\* variant in which document 20 holds a and b apart
BoolCorpora ==
    { [docs |-> <<<<ta, tb, tx>>, <<tx, tab, tx>>, <<ta, tc, tx>>, <<tx, tx, tx>>>>,
       ids |-> <<10, 20, 30, 40>>],
      [docs |-> <<<<ta, tb, tx>>, <<tb, ta, tc>>, <<ta, tc, tx>>, <<tx, tx, tx>>>>,
       ids |-> <<10, 20, 30, 40>>] }

\* nesting depth of parentheses before item i
RECURSIVE DepthBefore(_, _)
DepthBefore(items, i) ==
    IF i <= 1 THEN 0
    ELSE DepthBefore(items, i - 1)
         + (IF items[i - 1] = iLP THEN 1 ELSE IF items[i - 1] = iRP THEN -1 ELSE 0)

TopLevel(items, o) == {i \in 1..Len(items) : items[i] = o /\ DepthBefore(items, i) = 0}

Max(S) == CHOOSE x \in S : \A y \in S : y <= x

\* the reference semantics: OR binds loosest, then AND, then NOT; AND/OR
\* associate left; parentheses override; NOT X is U \ X
RECURSIVE RefEval(_, _, _)
RefEval(items, U, corpus) ==
    IF TopLevel(items, iOR) # {}
    THEN LET i == Max(TopLevel(items, iOR))
         IN  RefEval(SubSeq(items, 1, i - 1), U, corpus)
             \cup RefEval(SubSeq(items, i + 1, Len(items)), U, corpus)
    ELSE IF TopLevel(items, iAND) # {}
    THEN LET i == Max(TopLevel(items, iAND))
         IN  RefEval(SubSeq(items, 1, i - 1), U, corpus)
             \cap RefEval(SubSeq(items, i + 1, Len(items)), U, corpus)
    ELSE IF items[1] = iNOT THEN U \ RefEval(Tail(items), U, corpus)
    ELSE IF items[1] = iLP THEN RefEval(SubSeq(items, 2, Len(items) - 1), U, corpus)
    ELSE DocsContaining(corpus, items[1][3])

\* U: the union of the postings of every operand of the query
RefUniverse(items, corpus) ==
    UNION {DocsContaining(corpus, items[i][3]) :
              i \in {j \in 1..Len(items) : items[j][1] = "operand"}}

RefBoolean(items, corpus) == RefEval(items, RefUniverse(items, corpus), corpus)

BoolBuildStep ==
    /\ call = NoCall
    /\ \E c \in BoolCorpora, p \in Paths :
          /\ create_all_indexes(c.docs, p, Ids(c.ids))
          /\ given' = NoInput

\* the process that built the package evaluates one query on it
BooleanStep ==
    /\ call.op = "create_all_indexes"
    /\ \E items \in BoolQueries, tight \in BOOLEAN, p \in Paths :
          /\ process_boolean_query(Render(items, tight), p)
          /\ given' = items

NextBool == BoolBuildStep \/ BooleanStep

SpecBool == Init /\ [][NextBool]_vars

(***************************************************************************)
(* C5: for every well-formed boolean query process_boolean_query returns   *)
(* the set given by the reference semantics (NOT over AND over OR, AND/OR  *)
(* left-associative, parentheses override, NOT X = U minus X with U the    *)
(* union of the postings of the query's operands).                         *)
(***************************************************************************)
C5_BooleanMatchesReference ==
    (call.op = "process_boolean_query" /\ built[call.path] # NoPkg) =>
        /\ res.ok
        /\ res.val = RefBoolean(given, built[call.path])

\* the same, for the queries none of whose quoted phrases is spelled AND, OR or NOT
C5_HoldsWithoutKeywordPhrases ==
    (/\ call.op = "process_boolean_query" /\ built[call.path] # NoPkg
     /\ Operand(Quote(kNOT), <<kNOT>>) \notin Range(given)) =>
        /\ res.ok
        /\ res.val = RefBoolean(given, built[call.path])

(***************************************************************************)
(* query_processing/detection.py                                           *)
(***************************************************************************)
kNEAR == <<"N", "E", "A", "R">>
kNEARslash == <<"N", "E", "A", "R", "/">>

Contains(s, w) == \E i \in 0..(Len(s) - Len(w)) : StartsAt(s, i, w)

Count(s, c) == Cardinality({i \in 1..Len(s) : s[i] = c})

\* _balanced_parens
RECURSIVE balanced_from(_, _, _)
balanced_from(s, i, c) ==
    IF i > Len(s) THEN c = 0
    ELSE IF s[i] = "(" THEN balanced_from(s, i + 1, c + 1)
    ELSE IF s[i] = ")" THEN (IF c - 1 < 0 THEN FALSE ELSE balanced_from(s, i + 1, c - 1))
    ELSE balanced_from(s, i + 1, c)

balanced_parens(s) == balanced_from(s, 1, 0)

\* _has_unmatched_quotes
has_unmatched_quotes(s) == Count(s, "\"") % 2 = 1

\* _RE_QUOTES.finditer: the matches of "[^"]*" from 0-based position i on
RECURSIVE quoted_from(_, _)
quoted_from(s, i) ==
    LET open == NextQuote(s, i)
        close == IF open < 0 THEN -1 ELSE NextQuote(s, open + 1)
    IN  IF open < 0 \/ close < 0 THEN <<>>
        ELSE <<Slice(s, open, close + 1)>> \o quoted_from(s, close + 1)

\* bad_phrase_lengths without the limit of 3 tokens
bad_phrase_lengths_empty_only(s) ==
    \E m \in Range(quoted_from(s, 0)) : Strip(Slice(m, 1, Len(m) - 1)) = <<>>

\* _bad_phrase_lengths
bad_phrase_lengths(s) ==
    \E m \in Range(quoted_from(s, 0)) :
        LET inside == Strip(Slice(m, 1, Len(m) - 1))
        IN  inside = <<>> \/ Len(Split(inside)) > 3

\* the end (exclusive) of the run of digits starting at 0-based i
RECURSIVE DigitsEnd(_, _)
DigitsEnd(s, i) == IF i < Len(s) /\ s[i + 1] \in Digits THEN DigitsEnd(s, i + 1) ELSE i

\* NEAR/(\d+) matches at 0-based position i
NearAt(s, i) == StartsAt(s, i, kNEARslash) /\ DigitsEnd(s, i + 5) > i + 5

\* _RE_NEAR.finditer: the non-overlapping matches as <<start, end>>, from i on
RECURSIVE near_matches_from(_, _)
near_matches_from(s, i) ==
    IF i >= Len(s) THEN <<>>
    ELSE IF NearAt(s, i)
         THEN <<<<i, DigitsEnd(s, i + 5)>>>> \o near_matches_from(s, DigitsEnd(s, i + 5))
         ELSE near_matches_from(s, i + 1)

near_matches(s) == near_matches_from(s, 0)

\* _RE_NEAR.search
near_search(s) == near_matches(s) # <<>>

\* bool_op_search ignoring letter case
bool_op_search_ignoring_case(s) ==
    \E i \in 0..Len(s) :
        \E w \in {kAND, kOR, kNOT, <<"a", "n", "d">>, <<"o", "r">>, <<"n", "o", "t">>} :
            KeywordAt(s, i, w)

\* _RE_BOOL_OP.search
bool_op_search(s) ==
    \E i \in 0..Len(s) : \E w \in {kAND, kOR, kNOT} : KeywordAt(s, i, w)

\* _RE_UPPER_OPLIKE.fullmatch
upper_oplike(t) == Len(t) >= 2 /\ \A i \in 1..Len(t) : t[i] \in Uppers

\* _has_mixed_types
has_mixed_types(query) ==
    LET has_star == Contains(query, <<"*">>)
        has_near == near_search(query) \/ Contains(query, kNEAR)
        has_bool_ops == bool_op_search(query)
        has_quotes == Contains(query, <<"\"">>)
    IN  \/ has_star /\ (has_near \/ has_bool_ops \/ has_quotes)
        \/ has_near /\ has_bool_ops

\* invalid_near without the test of the text on both sides
invalid_near_any_sides(query) ==
    IF Contains(query, kNEAR) /\ ~near_search(query) THEN TRUE
    ELSE Len(near_matches(query)) > 1

\* _invalid_near (int(m.group(1)) of a run of digits is never negative)
invalid_near(query) ==
    IF Contains(query, kNEAR) /\ ~near_search(query) THEN TRUE
    ELSE LET matches == near_matches(query)
         IN  IF Len(matches) = 0 THEN FALSE
             ELSE IF Len(matches) > 1 THEN TRUE
             ELSE LET left == Strip(Slice(query, 0, matches[1][1]))
                      right == Strip(Slice(query, matches[1][2], Len(query)))
                  IN  left = <<>> \/ right = <<>>

\* invalid_wildcard accepting a pattern made of stars only
invalid_wildcard_stars_allowed(query) ==
    IF ~Contains(query, <<"*">>) THEN FALSE
    ELSE IF Contains(query, <<"\"">>) THEN TRUE
    ELSE \E ch \in Range(query) : IsSpace(ch)

\* _invalid_wildcard
invalid_wildcard(query) ==
    IF ~Contains(query, <<"*">>) THEN FALSE
    ELSE IF Contains(query, <<"\"">>) THEN TRUE
    ELSE IF \E ch \in Range(query) : IsSpace(ch) THEN TRUE
    ELSE Range(query) = {"*"}

IsBoolKeyword(t) == t \in {kAND, kOR, kNOT}

\* _invalid_boolean_structure
invalid_boolean_structure(query) ==
    IF has_unmatched_quotes(query) THEN TRUE
    ELSE IF ~balanced_parens(query) THEN TRUE
    ELSE IF bad_phrase_lengths(query) THEN TRUE
    ELSE LET toks == Split(Strip(query))
         IN  IF toks = <<>> THEN FALSE
             ELSE \/ \E i \in 1..Len(toks) : upper_oplike(toks[i]) /\ ~IsBoolKeyword(toks[i])
                  \/ IsBoolKeyword(toks[Len(toks)])
                  \/ toks[1] \in {kAND, kOR}
                  \/ \E i \in 1..(Len(toks) - 1) :
                        \/ toks[i] \in {kAND, kOR} /\ toks[i + 1] \in {kAND, kOR}
                        \/ toks[i] = kNOT /\ IsBoolKeyword(toks[i + 1])

\* detect_query_type: Returned(type) or Raised("ValueError")
detect_query_type(query) ==
    IF has_unmatched_quotes(query) THEN Raised("ValueError")
    ELSE IF ~balanced_parens(query) THEN Raised("ValueError")
    ELSE IF bad_phrase_lengths(query) THEN Raised("ValueError")
    ELSE IF \E t \in Range(Split(Strip(query))) :
                upper_oplike(t) /\ ~IsBoolKeyword(t) /\ ~StartsAt(t, 0, kNEARslash)
         THEN Raised("ValueError")
    ELSE IF has_mixed_types(query) THEN Raised("ValueError")
    ELSE IF Contains(query, kNEAR) \/ near_search(query)
         THEN (IF invalid_near(query) THEN Raised("ValueError") ELSE Returned("proximity"))
    ELSE IF Contains(query, <<"*">>)
         THEN (IF invalid_wildcard(query) THEN Raised("ValueError") ELSE Returned("wildcard"))
    ELSE IF bool_op_search(query) \/ Contains(query, <<"\"">>)
         THEN (IF invalid_boolean_structure(query) THEN Raised("ValueError")
               ELSE Returned("boolean"))
    ELSE Returned("natural_language")

(***************************************************************************)
(* query_processing/wildcard.py                                            *)
(***************************************************************************)
\* the 0-based index of the first / last "*", or -1
FirstStar(s) == IF Contains(s, <<"*">>) THEN (CHOOSE i \in 0..(Len(s) - 1) :
                    s[i + 1] = "*" /\ \A j \in 0..(i - 1) : s[j + 1] # "*") ELSE -1
LastStar(s) == IF Contains(s, <<"*">>) THEN (CHOOSE i \in 0..(Len(s) - 1) :
                    s[i + 1] = "*" /\ \A j \in (i + 1)..(Len(s) - 1) : s[j + 1] # "*") ELSE -1

\* s.replace('*', '')
RemoveStars(s) == SelectSeq(s, LAMBDA c : c # "*")

\* list of x in l not seen before, skipping "" and "$" (lines 34-40)
RECURSIVE dedup_grams(_, _, _)
dedup_grams(grams, i, out) ==
    IF i > Len(grams) THEN out
    ELSE IF grams[i] # <<>> /\ grams[i] # <<"$">> /\ grams[i] \notin Range(out)
         THEN dedup_grams(grams, i + 1, Append(out, grams[i]))
         ELSE dedup_grams(grams, i + 1, out)

\* for i in range(0, max(0, len(core) - L + 1)): core[i:i+L]
core_grams(core, L) == [j \in 1..(Len(core) - L + 1) |-> SubSeq(core, j, j + L - 1)]

\* _pattern_to_ngrams
pattern_to_ngrams(pat) ==
    LET prefix_stem == IF FirstStar(pat) < 0 THEN pat ELSE Slice(pat, 0, FirstStar(pat))
        suffix_stem == Slice(pat, LastStar(pat) + 1, Len(pat))
        prefix_grams ==
            IF pat # <<>> /\ Head(pat) = "*" THEN <<>>
            ELSE (IF Len(prefix_stem) >= 1 THEN <<<<"$">> \o Slice(prefix_stem, 0, 1)>> ELSE <<>>)
                 \o (IF Len(prefix_stem) >= 2 THEN <<<<"$">> \o Slice(prefix_stem, 0, 2)>> ELSE <<>>)
        suffix_grams ==
            IF pat # <<>> /\ pat[Len(pat)] = "*" THEN <<>>
            ELSE (IF Len(suffix_stem) >= 1
                  THEN <<Slice(suffix_stem, Len(suffix_stem) - 1, Len(suffix_stem)) \o <<"$">>>>
                  ELSE <<>>)
                 \o (IF Len(suffix_stem) >= 2
                     THEN <<Slice(suffix_stem, Len(suffix_stem) - 2, Len(suffix_stem)) \o <<"$">>>>
                     ELSE <<>>)
        core == RemoveStars(pat)
    IN  dedup_grams(prefix_grams \o suffix_grams
                    \o core_grams(core, 3) \o core_grams(core, 2) \o core_grams(core, 1),
                    1, <<>>)

\* the candidates loop of _expand_terms (lines 50-60)
RECURSIVE candidates_loop(_, _, _, _)
candidates_loop(grams, i, candidates, package) ==
    IF i > Len(grams) THEN candidates
    ELSE LET terms == Range(wildcard_matches(package, grams[i]))
             c == IF i = 1 THEN terms ELSE candidates \cap terms
         IN  IF c = {} THEN c ELSE candidates_loop(grams, i + 1, c, package)

\* the compiled pattern "^" + re.escape(pat).replace("\\*", ".*") + "$":
\* one element per pattern character, ".*" for "*", the literal otherwise
compile_glob(pat) == [i \in 1..Len(pat) |-> IF pat[i] = "*" THEN ".*" ELSE pat[i]]

\* rx.match(t) of the anchored pattern (no term holds a line break)
RECURSIVE rx_match(_, _)
rx_match(rx, t) ==
    IF rx = <<>> THEN t = <<>>
    ELSE IF Head(rx) = ".*"
         THEN \E k \in 0..Len(t) : rx_match(Tail(rx), SubSeq(t, k + 1, Len(t)))
         ELSE t # <<>> /\ Head(t) = Head(rx) /\ rx_match(Tail(rx), Tail(t))

\* _expand_terms
expand_terms(pat, package) ==
    LET grams == pattern_to_ngrams(pat)
    IN  IF grams = <<>> THEN <<>>
        ELSE SortedStrs({t \in candidates_loop(grams, 1, {}, package) :
                            rx_match(compile_glob(pat), t)})

\* wildcard_result without the '"*" not in pattern' early return
wildcard_result_no_star_check(pattern, package) ==
    IF Strip(pattern) = <<>> THEN Returned({})
    ELSE Returned(UNION {Range(posting_list(package, StrKey(t))) :
                            t \in Range(expand_terms(pattern, package))})

\* process_wildcard_query, on the loaded package
wildcard_result(pattern, package) ==
    IF ~Contains(pattern, <<"*">>) \/ Strip(pattern) = <<>> THEN Returned({})
    ELSE Returned(UNION {Range(posting_list(package, StrKey(t))) :
                            t \in Range(expand_terms(pattern, package))})

\* does evaluating the pattern read the index
wildcard_reads_index(pattern) ==
    Contains(pattern, <<"*">>) /\ Strip(pattern) # <<>> /\ pattern_to_ngrams(pattern) # <<>>

process_wildcard_query(pattern, index_path) ==
    /\ call' = [op |-> "process_wildcard_query", query |-> pattern, path |-> index_path]
    /\ res' = through_index(wildcard_reads_index(pattern), index_path,
                            wildcard_result(pattern, package_at(index_path)))
    /\ cache' = IF wildcard_reads_index(pattern) THEN cache_after_load(index_path) ELSE cache
    /\ UNCHANGED <<disk, built, META_CACHE, DF_CACHE>>

(***************************************************************************)
(* Wildcard queries: every pattern over a, b, * against every term over    *)
(* a, b of bounded length                                                  *)
(***************************************************************************)
MaxTermLen == 4
MaxPatternLen == 4

WildTerms == SortedStrs({t \in SeqsUpTo({"a", "b"}, MaxTermLen) : Len(t) >= 1})

\* the terms no longer than the longest indexed character n-gram
ShortTerms == SelectSeq(WildTerms, LAMBDA t : Len(t) <= CHAR_NGRAMS_MAX)

\* the number of consecutive terms put in one document
TermsPerDoc == 2 * MaxTermLen

\* all terms in documents of TermsPerDoc consecutive terms under the default
\* IDs, and one document per short term under caller-supplied descending IDs
WildCorpora ==
    { [docs |-> [i \in 1..((Len(WildTerms) + TermsPerDoc - 1) \div TermsPerDoc) |->
                    SubSeq(WildTerms, (i - 1) * TermsPerDoc + 1,
                           IF i * TermsPerDoc < Len(WildTerms) THEN i * TermsPerDoc
                           ELSE Len(WildTerms))],
       ids |-> NoIds],
      [docs |-> [i \in 1..Len(ShortTerms) |-> <<ShortTerms[i]>>],
       ids |-> Ids([i \in 1..Len(ShortTerms) |-> 100 - i])] }

WildPatterns == SeqsUpTo({"a", "b", "*"}, MaxPatternLen) \cup {<<" ">>, <<" ", "*">>}

\* the anchored glob, read from the right: '*' stands for any substring
RECURSIVE RefGlob(_, _)
RefGlob(pat, t) ==
    IF pat = <<>> THEN t = <<>>
    ELSE LET front == SubSeq(pat, 1, Len(pat) - 1)
         IN  IF pat[Len(pat)] = "*"
             THEN \E k \in 0..Len(t) : RefGlob(front, SubSeq(t, 1, k))
             ELSE /\ t # <<>>
                  /\ t[Len(t)] = pat[Len(pat)]
                  /\ RefGlob(front, SubSeq(t, 1, Len(t) - 1))

\* the IDs of the documents holding a term that matches the pattern
GlobDocs(pat, corpus) ==
    {corpus.ids[i] : i \in {j \in 1..Len(corpus.docs) :
                               \E t \in Range(corpus.docs[j]) : RefGlob(pat, t)}}

WildBuildStep ==
    /\ call = NoCall
    /\ \E c \in WildCorpora, p \in Paths :
          /\ create_all_indexes(c.docs, p, c.ids)
          /\ given' = NoInput

\* the process that built the package evaluates one pattern on it
WildcardStep ==
    /\ call.op = "create_all_indexes"
    /\ \E pat \in WildPatterns, p \in Paths :
          /\ process_wildcard_query(pat, p)
          /\ given' = NoInput

NextWild == WildBuildStep \/ WildcardStep

SpecWild == Init /\ [][NextWild]_vars

(***************************************************************************)
(* C6: for every pattern the detector accepts as wildcard,                 *)
(* process_wildcard_query returns every document that contains an indexed  *)
(* term matching the pattern as an anchored glob: every derived n-gram is  *)
(* contained in the augmented form of every matching term, so no matching  *)
(* term is dropped.                                                        *)
(***************************************************************************)
C6_NoMatchingTermDropped ==
    (/\ call.op = "process_wildcard_query" /\ built[call.path] # NoPkg
     /\ detect_query_type(call.query) = Returned("wildcard")) =>
        /\ res.ok
        /\ GlobDocs(call.query, built[call.path]) \subseteq res.val
        /\ \A t \in CorpusTerms(built[call.path]) : RefGlob(call.query, t) =>
              \A g \in Range(pattern_to_ngrams(call.query)) : IsSubstring(g, Augmented(t))

(***************************************************************************)
(* C7: process_wildcard_query never raises and returns only documents that *)
(* contain an indexed term matching the whole pattern as an anchored glob; *)
(* it returns the empty set when the pattern has no '*', is empty or       *)
(* whitespace, or yields no derived n-gram.                                *)
(***************************************************************************)
C7_WildcardSound ==
    (call.op = "process_wildcard_query" /\ built[call.path] # NoPkg) =>
        /\ res.ok
        /\ res.val \subseteq GlobDocs(call.query, built[call.path])
        /\ (\/ ~Contains(call.query, <<"*">>)
            \/ Strip(call.query) = <<>>
            \/ pattern_to_ngrams(call.query) = <<>>) => res.val = {}

\* a non-empty answer for which the final glob filter rejected a candidate term
C7_Witness ==
    /\ call.op = "process_wildcard_query" /\ built[call.path] # NoPkg
    /\ res.ok /\ res.val # {}
    /\ \E t \in candidates_loop(pattern_to_ngrams(call.query), 1, {}, disk[call.path]) :
          ~RefGlob(call.query, t)

(***************************************************************************)
(* query_processing/proximity.py                                           *)
(***************************************************************************)
\* int() of one decimal digit
DigitVal(c) == CHOOSE v \in 0..9 : <<"0", "1", "2", "3", "4", "5", "6", "7", "8", "9">>[v + 1] = c

\* int() of a run of decimal digits
RECURSIVE IntOf(_)
IntOf(ds) ==
    IF ds = <<>> THEN 0 ELSE 10 * IntOf(SubSeq(ds, 1, Len(ds) - 1)) + DigitVal(ds[Len(ds)])

\* \bNEAR/(\d+)\b matches at 0-based position i: the digits are taken
\* greedily and a shorter run never ends at a word boundary
ProxNearAt(s, i) ==
    /\ NearAt(s, i)
    /\ WordBoundary(s, i)
    /\ WordBoundary(s, DigitsEnd(s, i + 5))

\* _NEAR_RE.search: the 0-based start of the leftmost match, or -1
prox_near_search(s) ==
    IF \E i \in 0..Len(s) : ProxNearAt(s, i)
    THEN CHOOSE i \in 0..Len(s) : ProxNearAt(s, i) /\ \A j \in 0..(i - 1) : ~ProxNearAt(s, j)
    ELSE -1

\* _parse_near
parse_near(query) ==
    LET start == prox_near_search(query)
        end == DigitsEnd(query, start + 5)
        k == IntOf(Slice(query, start + 5, end))
        left == Strip(Slice(query, 0, start))
        right == Strip(Slice(query, end, Len(query)))
    IN  IF start < 0 THEN Raised("ValueError")
        ELSE IF k < 0 THEN Raised("ValueError")
        ELSE IF left = <<>> \/ right = <<>> THEN Raised("ValueError")
        ELSE Returned([left |-> left, k |-> k, right |-> right])

\* _as_key of proximity.py: a phrase of no token becomes the empty tuple
prox_as_key(operand) ==
    IF IsQuoted(operand)
    THEN LET inside == Strip(Slice(operand, 1, Len(operand) - 1))
             toks == Split(inside)
         IN  IF Len(toks) = 1 THEN StrKey(toks[1]) ELSE TupKey(toks)
    ELSE StrKey(operand)

\* _span_positions, on the loaded package
span_positions(key, doc_id, package) ==
    LET starts == term_positions(package, key, doc_id)
    IN  IF key[1] = "t"
        THEN [i \in 1..Len(starts) |-> <<starts[i], starts[i] + Len(key[2]) - 1>>]
        ELSE [i \in 1..Len(starts) |-> <<starts[i], starts[i]>>]

Abs(n) == IF n < 0 THEN -n ELSE n
Min(a, b) == IF a <= b THEN a ELSE b

\* _edge_distance
edge_distance(a, b) ==
    IF ~(a[2] < b[1] \/ b[2] < a[1]) THEN 0
    ELSE Min(Abs(b[1] - a[2]), Abs(a[1] - b[2]))

\* lines 99-119: is the candidate document a hit
is_hit(left_key, right_key, k, did, package) ==
    LET left_spans == span_positions(left_key, did, package)
        right_spans == span_positions(right_key, did, package)
    IN  /\ left_spans # <<>> /\ right_spans # <<>>
        /\ \E i \in 1..Len(left_spans), j \in 1..Len(right_spans) :
              /\ left_spans[i] # right_spans[j]
              /\ edge_distance(left_spans[i], right_spans[j]) <= k

\* process_proximity_query, on the loaded package
proximity_result(query, package) ==
    LET parsed == parse_near(query)
        left_key == prox_as_key(parsed.val.left)
        right_key == prox_as_key(parsed.val.right)
        candidates == Range(posting_list(package, left_key))
                          \cap Range(posting_list(package, right_key))
    IN  IF ~parsed.ok THEN parsed
        ELSE Returned({did \in candidates :
                          is_hit(left_key, right_key, parsed.val.k, did, package)})

\* the first get_posting_list is reached once the query has parsed
prox_reads_index(query) == parse_near(query).ok

process_proximity_query(query, index_path) ==
    /\ call' = [op |-> "process_proximity_query", query |-> query, path |-> index_path]
    /\ res' = IF ~prox_reads_index(query) THEN parse_near(query)
              ELSE through_index(TRUE, index_path,
                                 proximity_result(query, package_at(index_path)))
    /\ cache' = IF prox_reads_index(query) THEN cache_after_load(index_path) ELSE cache
    /\ UNCHANGED <<disk, built, META_CACHE, DF_CACHE>>

(***************************************************************************)
(* Proximity queries on a package that has just been built                 *)
(***************************************************************************)
MaxDistance == 2
MaxProxDocLen == 4

\* one decimal digit
DigitChar(k) == <<"0", "1", "2", "3", "4", "5", "6", "7", "8", "9">>[k + 1]

\* bare terms, a one-token phrase and phrases of two and three tokens
ProxOperands ==
    { Operand(ta, <<ta>>), Operand(tb, <<tb>>),
      Operand(Quote(<<"b">>), <<tb>>),
      Operand(Quote(<<"a", " ", "b">>), <<ta, tb>>),
      Operand(Quote(<<"b", " ", "a">>), <<tb, ta>>),
      Operand(Quote(<<"a", " ", "b", " ", "a">>), <<ta, tb, ta>>) }

\* '<left> NEAR/<k> <right>' as <<left operand, k, right operand>>
ProxQueries == ProxOperands \X (0..MaxDistance) \X ProxOperands

RenderNear(q) == q[1][2] \o <<" ">> \o kNEARslash \o <<DigitChar(q[2])>> \o <<" ">> \o q[3][2]

\* queries that _parse_near rejects: no operand on one side, no NEAR/<k>
MalformedNear ==
    { kNEARslash \o <<"1", " ", "a">>, <<"a", " ">> \o kNEARslash \o <<"1">>,
      <<"a", " ">> \o kNEAR \o <<" ", "b">>, <<"a", " ">> \o kNEARslash \o <<"1", "b">> }

ProxDocs == {d \in SeqsUpTo({ta, tb}, MaxProxDocLen) : Len(d) >= 1}

\* every single document under ID 10, and pairs of short documents under
\* distinct IDs and under one shared ID
ProxCorpora ==
    {[docs |-> <<d>>, ids |-> <<10>>] : d \in ProxDocs}
    \cup {[docs |-> <<d, e>>, ids |-> i] :
            d \in {<<ta>>, <<ta, tb>>}, e \in {<<tb>>, <<tb, ta>>, <<ta, ta, tb>>},
            i \in {<<10, 20>>, <<20, 10>>, <<5, 5>>}}

\* the spans of an operand in one document
RefSpans(toks, doc) == {<<s, s + Len(toks) - 1>> : s \in Offsets(doc, toks)}

\* the edge-to-edge distance: 0 for overlapping spans, else the gap from the
\* end of the span that comes first to the start of the other
RefDistance(a, b) ==
    IF a[2] < b[1] THEN b[1] - a[2]
    ELSE IF b[2] < a[1] THEN a[1] - b[2]
    ELSE 0

\* the documents in which two distinct spans of the operands are within k
RefNear(q, corpus) ==
    {corpus.ids[i] : i \in {j \in 1..Len(corpus.docs) :
        \E a \in RefSpans(q[1][3], corpus.docs[j]), b \in RefSpans(q[3][3], corpus.docs[j]) :
            a # b /\ RefDistance(a, b) <= q[2]}}

ProxBuildStep ==
    /\ call = NoCall
    /\ \E c \in ProxCorpora, p \in Paths :
          /\ create_all_indexes(c.docs, p, Ids(c.ids))
          /\ given' = NoInput

\* the process that built the package evaluates one NEAR query on it
ProximityStep ==
    /\ call.op = "create_all_indexes"
    /\ \E q \in ProxQueries, p \in Paths :
          /\ process_proximity_query(RenderNear(q), p)
          /\ given' = q

MalformedProximityStep ==
    /\ call.op = "create_all_indexes"
    /\ \E query \in MalformedNear, p \in Paths :
          /\ process_proximity_query(query, p)
          /\ given' = NoInput

NextProx == ProxBuildStep \/ ProximityStep \/ MalformedProximityStep

SpecProx == Init /\ [][NextProx]_vars

(***************************************************************************)
(* C8: for '<left> NEAR/<k> <right>', process_proximity_query returns      *)
(* exactly the documents in both posting lists in which some left span and *)
(* some right span, not identical, are at edge-to-edge distance <= k; a    *)
(* token at p spans [p,p], an m-token phrase at s spans [s,s+m-1].         *)
(***************************************************************************)
C8_ProximityExact ==
    (call.op = "process_proximity_query" /\ given # NoInput) =>
        /\ res.ok
        /\ res.val = RefNear(given, built[call.path])
                        \cap DocsContaining(built[call.path], given[1][3])
                        \cap DocsContaining(built[call.path], given[3][3])

\* the same statement when no two documents share an ID
C8_HoldsForDistinctIds ==
    (/\ call.op = "process_proximity_query" /\ given # NoInput
     /\ \A i, j \in 1..Len(built[call.path].ids) :
           i # j => built[call.path].ids[i] # built[call.path].ids[j]) =>
        /\ res.ok
        /\ res.val = RefNear(given, built[call.path])
                        \cap DocsContaining(built[call.path], given[1][3])
                        \cap DocsContaining(built[call.path], given[3][3])

(***************************************************************************)
(* query_processing/query_process.py                                       *)
(***************************************************************************)
\* a value that is either None or a str
PyNone == [none |-> TRUE, str |-> <<>>]
PyStr(s) == [none |-> FALSE, str |-> s]

\* bool(v) for None or a str
Truthy(v) == ~v.none /\ v.str # <<>>

\* convert_natural_language: the body is 'pass', so the call returns None
convert_natural_language(nl_query) == PyNone

\* lines 41-42: the natural_language branch
natural_language_reads_index(query) ==
    Truthy(convert_natural_language(query))
        /\ bool_reads_index(convert_natural_language(query).str)

natural_language_result(query, index_path) ==
    LET boolean_query == convert_natural_language(query)
    IN  IF Truthy(boolean_query)
        THEN through_index(bool_reads_index(boolean_query.str), index_path,
                           boolean_result(boolean_query.str, package_at(index_path)))
        ELSE Returned({})

\* does process_query read the index
query_reads_index(query) ==
    LET qtype == detect_query_type(query)
    IN  /\ qtype.ok
        /\ CASE qtype.val = "boolean" -> bool_reads_index(query)
             [] qtype.val = "wildcard" -> wildcard_reads_index(query)
             [] qtype.val = "proximity" -> prox_reads_index(query)
             [] OTHER -> natural_language_reads_index(query)

process_query(query, index_path) ==
    LET qtype == detect_query_type(query)
    IN  /\ call' = [op |-> "process_query", query |-> query, path |-> index_path]
        /\ res' = IF ~qtype.ok THEN qtype
                  ELSE CASE qtype.val = "boolean" ->
                              through_index(bool_reads_index(query), index_path,
                                            boolean_result(query, package_at(index_path)))
                         [] qtype.val = "wildcard" ->
                              through_index(wildcard_reads_index(query), index_path,
                                            wildcard_result(query, package_at(index_path)))
                         [] qtype.val = "proximity" ->
                              IF ~prox_reads_index(query) THEN parse_near(query)
                              ELSE through_index(TRUE, index_path,
                                                 proximity_result(query, package_at(index_path)))
                         [] OTHER -> natural_language_result(query, index_path)
        /\ cache' = IF query_reads_index(query) THEN cache_after_load(index_path) ELSE cache
        /\ UNCHANGED <<disk, built, META_CACHE, DF_CACHE>>

(***************************************************************************)
(* The router on the four-document example                                 *)
(***************************************************************************)
MaxWords == 3

\* ' '.join(words)
RECURSIVE JoinWith(_, _)
JoinWith(words, sep) ==
    IF words = <<>> THEN <<>>
    ELSE IF Len(words) = 1 THEN words[1]
    ELSE words[1] \o sep \o JoinWith(Tail(words), sep)

WordLists == SeqsUpTo({ta, tb, tc}, MaxWords)

\* cleaned natural-language queries, and the blank ones
PlainQueries == {JoinWith(w, <<" ">>) : w \in WordLists} \cup {<<" ">>, <<" ", " ">>}

\* structured queries of each type, and malformed ones
RoutedQueries ==
    PlainQueries
    \cup {Render(items, FALSE) : items \in {q \in BoolQueries : Len(q) <= 3} \cup ExampleQueries}
    \cup {<<"a", "*">>, <<"*", "b">>, <<"a", "*", "b">>, <<"*">>}
    \cup {RenderNear(q) : q \in {n \in ProxQueries : n[2] = 1}}
    \cup {<<"a", " ">> \o kNEAR \o <<" ", "b">>, <<"(", "a">>, <<"a", " ">> \o kAND}

QueryBuildStep ==
    /\ call = NoCall
    /\ \E c \in BoolCorpora, p \in Paths :
          /\ create_all_indexes(c.docs, p, Ids(c.ids))
          /\ given' = NoInput

\* convert_natural_language is applied to a cleaned query
ConvertStep ==
    /\ call = NoCall
    /\ \E query \in PlainQueries :
          /\ call' = [op |-> "convert_natural_language", query |-> query]
          /\ res' = Returned(convert_natural_language(query))
          /\ given' = NoInput
          /\ UNCHANGED <<disk, cache, built, META_CACHE, DF_CACHE>>

\* the process that built the package routes one query
RouterStep ==
    /\ call.op = "create_all_indexes"
    /\ \E query \in RoutedQueries, p \in Paths :
          /\ process_query(query, p)
          /\ given' = NoInput

NextQuery == QueryBuildStep \/ ConvertStep \/ RouterStep

SpecQuery == Init /\ [][NextQuery]_vars

(***************************************************************************)
(* C9: convert_natural_language(q) returns the whitespace-separated tokens *)
(* of q joined by ' OR ', and the empty string when q has no token.        *)
(***************************************************************************)
C9_JoinsTokensWithOr ==
    call.op = "convert_natural_language" =>
        res = Returned(PyStr(JoinWith(Split(call.query), <<" ">> \o kOR \o <<" ">>)))

(***************************************************************************)
(* C10: process_query returns what the evaluator of the detected type      *)
(* returns; for a natural_language query it returns the documents holding  *)
(* at least one of the query's whitespace-separated tokens, and the empty  *)
(* set when there is no token.                                             *)
(***************************************************************************)
C10_RoutesToOneEvaluator ==
    (/\ call.op = "process_query" /\ built[call.path] # NoPkg
     /\ detect_query_type(call.query).ok) =>
        LET qtype == detect_query_type(call.query).val
            package == disk[call.path]
        IN  CASE qtype = "boolean" -> res = boolean_result(call.query, package)
              [] qtype = "wildcard" -> res = wildcard_result(call.query, package)
              [] qtype = "proximity" -> res = proximity_result(call.query, package)
              [] OTHER ->
                  res = Returned(UNION {DocsContaining(built[call.path], <<tok>>) :
                                           tok \in Range(Split(call.query))})

\* the structured branches alone
C10_StructuredBranches ==
    (/\ call.op = "process_query" /\ built[call.path] # NoPkg
     /\ detect_query_type(call.query).ok
     /\ detect_query_type(call.query).val # "natural_language") =>
        LET qtype == detect_query_type(call.query).val
            package == disk[call.path]
        IN  CASE qtype = "boolean" -> res = boolean_result(call.query, package)
              [] qtype = "wildcard" -> res = wildcard_result(call.query, package)
              [] OTHER -> res = proximity_result(call.query, package)

(***************************************************************************)
(* ranking/rankers.py                                                      *)
(***************************************************************************)
AsciiUpper == <<"A", "B", "C", "D", "E", "F", "G", "H", "I", "J", "K", "L", "M",
                "N", "O", "P", "Q", "R", "S", "T", "U", "V", "W", "X", "Y", "Z">>
AsciiLower == <<"a", "b", "c", "d", "e", "f", "g", "h", "i", "j", "k", "l", "m",
                "n", "o", "p", "q", "r", "s", "t", "u", "v", "w", "x", "y", "z">>

\* str.lower()
lower(s) ==
    [i \in 1..Len(s) |->
        IF \E j \in 1..26 : AsciiUpper[j] = s[i]
        THEN AsciiLower[CHOOSE j \in 1..26 : AsciiUpper[j] = s[i]]
        ELSE s[i]]

\* 1000 * math.log(n) to the nearest integer, n = 1..16
LnTable == <<0, 693, 1099, 1386, 1609, 1792, 1946, 2079,
             2197, 2303, 2398, 2485, 2565, 2639, 2708, 2773>>
LnMilli(n) == LnTable[n]

\* a float score: m counts units of 1e-5, e counts the contribution of the
\* 1e-12 added inside the TF-IDF logarithm, which is below every unit of m
ZeroScore == [m |-> 0, e |-> 0]
AddScore(a, b) == [m |-> a.m + b.m, e |-> a.e + b.e]
ScoreLess(a, b) == a.m < b.m \/ (a.m = b.m /\ a.e < b.e)

RECURSIVE SumLengths(_, _)
SumLengths(doc_lengths, ids) ==
    IF ids = {} THEN 0
    ELSE LET d == CHOOSE x \in ids : TRUE
         IN  doc_lengths[d] + SumLengths(doc_lengths, ids \ {d})

\* _load_meta, lines 49-57: the metadata of a package, missing fields filled
load_meta(pkg) ==
    LET meta == IF "META" \in DOMAIN pkg THEN pkg.META ELSE [none |-> TRUE]
        doc_lengths == IF "doc_lengths" \in DOMAIN meta THEN meta.doc_lengths ELSE EmptyDict
        N == IF "N" \in DOMAIN meta THEN meta.N ELSE Cardinality(DOMAIN doc_lengths)
        avgdl == IF "avgdl" \in DOMAIN meta THEN meta.avgdl
                 ELSE IF N > 0 THEN <<SumLengths(doc_lengths, DOMAIN doc_lengths), N>>
                 ELSE <<0, 1>>
    IN  [N |-> N, avgdl |-> avgdl, doc_lengths |-> doc_lengths]

\* _load_meta: the metadata the call works with
meta_at(index_path) ==
    IF META_CACHE[index_path] # NoMeta THEN META_CACHE[index_path]
    ELSE load_meta(disk[index_path])

\* _df, on the package get_posting_list would read
df(term, index_path, package) ==
    IF <<index_path, term>> \in DOMAIN DF_CACHE THEN DF_CACHE[<<index_path, term>>]
    ELSE Len(posting_list(package, StrKey(term)))

\* _tf
tf(term, doc_id, package) == Len(term_positions(package, StrKey(term), doc_id))

\* the keys of the idf dict: the query terms with df > 0
idf_terms(query_toks, index_path, package) ==
    {t \in Range(query_toks) : df(t, index_path, package) > 0}

\* line 106: ln((N - df + 0.5) / (df + 0.5) + 1) = ln((2N + 2) / (2df + 1))
bm25_idf(N, d_f) == LnMilli(2 * N + 2) - LnMilli(2 * d_f + 1)

\* lines 113-121 with k1 = 6/5 and b = 3/4, avgdl = total / count:
\* tf * (k1 + 1) / (tf + k1 * norm) as numerator and denominator
bm25_term(idf_t, tf_td, dl, avgdl) ==
    LET num == IF avgdl[1] > 0 THEN 22 * avgdl[1] * tf_td ELSE 11 * tf_td
        den == IF avgdl[1] > 0
               THEN 10 * avgdl[1] * tf_td + 3 * avgdl[1] + 9 * dl * avgdl[2]
               ELSE 5 * tf_td + 6
    IN  [m |-> (idf_t * 100 * num) \div den, e |-> 0]

\* line 139: ln(N / df + 1e-12)
tfidf_idf(N, d_f) == [m |-> LnMilli(N) - LnMilli(d_f), e |-> 1]

\* line 151: (1 + ln(tf)) * idf
tfidf_term(idf_t, tf_td) ==
    [m |-> ((1000 + LnMilli(tf_td)) * idf_t.m) \div 10,
     e |-> (1000 + LnMilli(tf_td)) * idf_t.e]

\* the inner loop over idf.items() for one document: the sum of the
\* contributions of the matched terms
RECURSIVE sum_terms(_, _)
sum_terms(terms, contribution) ==
    IF terms = {} THEN ZeroScore
    ELSE LET t == CHOOSE x \in terms : TRUE
         IN  AddScore(sum_terms(terms \ {t}, contribution), contribution[t])

Max1(n) == IF n < 1 THEN 1 ELSE n

\* _bm25_scores, on the metadata and the package in use
bm25_scores(query_toks, doc_ids, index_path, meta, package) ==
    LET N == Max1(meta.N)
        idf == idf_terms(query_toks, index_path, package)
    IN  [d \in Range(doc_ids) |->
            LET dl == Max1(Get(meta.doc_lengths, d, 0))
                matched == {t \in idf : tf(t, d, package) # 0}
            IN  sum_terms(matched,
                    [t \in matched |->
                        bm25_term(bm25_idf(N, df(t, index_path, package)),
                                  tf(t, d, package), dl, meta.avgdl)])]

\* _tfidf_scores
tfidf_scores(query_toks, doc_ids, index_path, meta, package) ==
    LET N == Max1(meta.N)
        idf == idf_terms(query_toks, index_path, package)
    IN  [d \in Range(doc_ids) |->
            LET matched == {t \in idf : tf(t, d, package) # 0}
            IN  sum_terms(matched,
                    [t \in matched |->
                        tfidf_term(tfidf_idf(N, df(t, index_path, package)),
                                   tf(t, d, package))])]

\* chosen_method scoring every unlisted name with TF-IDF
chosen_method_tfidf_fallback(method) ==
    LET meth == lower(IF Truthy(method) THEN method.str
                      ELSE <<"d", "e", "f", "a", "u", "l", "t">>)
    IN  IF meth \in {<<"d", "e", "f", "a", "u", "l", "t">>, <<"b", "m", "2", "5">>}
        THEN "bm25" ELSE "tfidf"

\* lines 188-195: the scoring method chosen for a method argument
chosen_method(method) ==
    LET meth == lower(IF Truthy(method) THEN method.str
                      ELSE <<"d", "e", "f", "a", "u", "l", "t">>)
    IN  IF meth = <<"t", "f", "i", "d", "f">> THEN "tfidf" ELSE "bm25"

\* the query terms whose document frequency is not memoized
uncached_terms(query_toks, index_path) ==
    {t \in Range(query_toks) : <<index_path, t>> \notin DOMAIN DF_CACHE}

\* does the call go through _load_index: for a document frequency that is
\* not memoized, or for the term frequencies once some term has df > 0
rank_reads_index(query_toks, index_path) ==
    \/ uncached_terms(query_toks, index_path) # {}
    \/ \E t \in Range(query_toks) : DF_CACHE[<<index_path, t>>] > 0

\* ranked_by sorting by ascending score
ranked_by_ascending(doc_ids, scores_of) ==
    LET score_map == scores_of @@ EmptyDict
        ranked == SortSeq(doc_ids, LAMBDA a, b :
                      \/ ScoreLess(score_map[a], score_map[b])
                      \/ (score_map[a] = score_map[b] /\ a < b))
    IN  [ranked |-> ranked, scores |-> [i \in 1..Len(ranked) |-> score_map[ranked[i]]]]

\* rank_documents, lines 197-200, on the score map
ranked_by(doc_ids, scores_of) ==
    LET score_map == scores_of @@ EmptyDict   \* the dict, evaluated once
        ranked == SortSeq(doc_ids, LAMBDA a, b :
                      \/ ScoreLess(score_map[b], score_map[a])
                      \/ (score_map[a] = score_map[b] /\ a < b))
    IN  [ranked |-> ranked, scores |-> [i \in 1..Len(ranked) |-> score_map[ranked[i]]]]

\* what rank_documents returns or raises in the current state
rank_result(query_toks, doc_ids, index_path, method) ==
    IF doc_ids = <<>> THEN Returned([ranked |-> <<>>, scores |-> <<>>])
    ELSE IF META_CACHE[index_path] = NoMeta /\ disk[index_path] = NoPkg
    THEN Raised("FileNotFoundError")
    ELSE IF rank_reads_index(query_toks, index_path) /\ load_raises(index_path)
    THEN Raised("FileNotFoundError")
    ELSE LET meta == meta_at(index_path)
             package == package_at(index_path)
         IN  Returned(ranked_by(doc_ids,
                 IF chosen_method(method) = "tfidf"
                 THEN tfidf_scores(query_toks, doc_ids, index_path, meta, package)
                 ELSE bm25_scores(query_toks, doc_ids, index_path, meta, package)))

rank_documents(query_toks, doc_ids, index_path, method) ==
    LET meta_loaded == doc_ids # <<>> /\ disk[index_path] # NoPkg
                          /\ META_CACHE[index_path] = NoMeta
        reached_index == /\ doc_ids # <<>>
                         /\ (META_CACHE[index_path] # NoMeta \/ disk[index_path] # NoPkg)
                         /\ rank_reads_index(query_toks, index_path)
                         /\ ~load_raises(index_path)
    IN  /\ call' = [op |-> "rank_documents", query |-> query_toks, ids |-> doc_ids,
                    path |-> index_path, method |-> method]
        /\ res' = rank_result(query_toks, doc_ids, index_path, method)
        /\ META_CACHE' = IF meta_loaded
                         THEN [META_CACHE EXCEPT ![index_path] = load_meta(disk[index_path])]
                         ELSE META_CACHE
        /\ DF_CACHE' = IF reached_index
                       THEN [k \in {<<index_path, t>> : t \in uncached_terms(query_toks, index_path)} |->
                                Len(posting_list(load_index(index_path), StrKey(k[2])))]
                            @@ DF_CACHE
                       ELSE DF_CACHE
        /\ cache' = IF reached_index THEN cache_after_load(index_path) ELSE cache
        /\ UNCHANGED <<disk, built>>

(***************************************************************************)
(* Ranking the candidates of a package that has just been built            *)
(***************************************************************************)
MaxQueryToks == 2
MaxCandidates == 3

tz == <<"z">>

\* two equal documents, two lengths, two term frequencies, one shared ID,
\* an ID whose stored length is 0, a second query term, and the empty corpus
RankCorpora ==
    { [docs |-> <<<<tx>>, <<tx>>>>, ids |-> Ids(<<20, 10>>)],
      [docs |-> <<<<tx>>, <<>>, <<tx>>>>, ids |-> Ids(<<5, 5, 7>>)],
      [docs |-> <<<<tx>>, <<tx, ta, ta>>>>, ids |-> Ids(<<10, 20>>)],
      [docs |-> <<<<tx>>, <<tx, tx>>>>, ids |-> Ids(<<5, 1>>)],
      [docs |-> <<<<tx>>, <<ta, tx>>>>, ids |-> Ids(<<5, 5>>)],
      [docs |-> <<<<ta, tx, tx>>, <<ta>>>>, ids |-> NoIds],
      [docs |-> <<>>, ids |-> NoIds] }

\* in-vocabulary and out-of-vocabulary query terms
RankQueries == SeqsUpTo({ta, tx, tz}, MaxQueryToks)

\* the candidate lists over the IDs of the corpus and one unknown ID
Candidates(c) ==
    SeqsUpTo(Range(default_ids(c.ids, c.docs)) \cup {99}, MaxCandidates)

Methods ==
    { PyNone, PyStr(<<>>), PyStr(<<"d", "e", "f", "a", "u", "l", "t">>),
      PyStr(<<"b", "m", "2", "5">>), PyStr(<<"B", "M", "2", "5">>),
      PyStr(<<"t", "f", "i", "d", "f">>), PyStr(<<"T", "F", "I", "D", "F">>),
      PyStr(<<"t", "f", "-", "i", "d", "f">>), PyStr(<<"x">>) }

RankBuildStep ==
    /\ call = NoCall
    /\ \E c \in RankCorpora, p \in Paths :
          /\ create_all_indexes(c.docs, p, c.ids)
          /\ given' = NoInput

\* the process that built the package ranks one candidate list; the history
\* keeps what method 'bm25' returns for the same input in the same state
RankStep ==
    /\ call.op = "create_all_indexes"
    /\ \E c \in RankCorpora, p \in Paths :
          /\ built[p] = [docs |-> c.docs, ids |-> default_ids(c.ids, c.docs)]
          /\ \E q \in RankQueries, ids \in Candidates(c), method \in Methods :
                /\ rank_documents(q, ids, p, method)
                /\ given' = rank_result(q, ids, p, PyStr(<<"b", "m", "2", "5">>))

NextRank == RankBuildStep \/ RankStep

SpecRank == Init /\ [][NextRank]_vars

\* how many times v occurs in the list l
Occurrences(l, v) == Cardinality({i \in 1..Len(l) : l[i] = v})

\* does some document indexed under ID d hold some query term
Matches(corpus, d, query_toks) ==
    \E i \in 1..Len(corpus.docs) :
        corpus.ids[i] = d /\ Range(corpus.docs[i]) \cap Range(query_toks) # {}

(***************************************************************************)
(* C11: rank_documents returns a permutation of the candidate IDs ordered  *)
(* by (descending score, ascending ID) with an aligned, non-increasing     *)
(* score list; a candidate matching no query term scores 0.0, and with no  *)
(* matching candidate the order is ascending ID.                           *)
(***************************************************************************)
C11_RankedPermutation ==
    (call.op = "rank_documents" /\ built[call.path] # NoPkg) =>
        /\ res.ok
        /\ Len(res.val.ranked) = Len(call.ids)
        /\ \A v \in Range(call.ids) \cup Range(res.val.ranked) :
              Occurrences(res.val.ranked, v) = Occurrences(call.ids, v)
        /\ Len(res.val.scores) = Len(res.val.ranked)
        /\ \A i \in 1..Len(res.val.ranked), j \in 1..Len(res.val.ranked) :
              i < j => \/ ScoreLess(res.val.scores[j], res.val.scores[i])
                       \/ /\ res.val.scores[i] = res.val.scores[j]
                          /\ res.val.ranked[i] <= res.val.ranked[j]
        /\ \A i \in 1..Len(res.val.ranked) :
              ~Matches(built[call.path], res.val.ranked[i], call.query)
                  => res.val.scores[i] = ZeroScore
        /\ (\A d \in Range(call.ids) : ~Matches(built[call.path], d, call.query))
              => res.val.ranked = SortList(call.ids)

\* TF-IDF under an upper-case method name moves a matching candidate ahead of
\* an unknown one and of a smaller ID
C11_Witness ==
    /\ call.op = "rank_documents" /\ built[call.path] # NoPkg
    /\ call.method = PyStr(<<"T", "F", "I", "D", "F">>)
    /\ call.ids = <<99, 1, 5>>
    /\ res.ok /\ res.val.ranked = <<1, 5, 99>>
    /\ ScoreLess(res.val.scores[2], res.val.scores[1])
    /\ res.val.scores[3] = ZeroScore

\* the call ranked the candidates of a built package
RankedOnBuilt == call.op = "rank_documents" /\ built[call.path] # NoPkg

(***************************************************************************)
(* C12 as stated: every method string other than 'bm25' and 'tfidf'        *)
(* returns what method 'bm25' returns for the same input, and never raises.*)
(***************************************************************************)
C12_EveryOtherStringIsBm25 ==
    (RankedOnBuilt /\ call.method # PyNone
        /\ call.method.str \notin {<<"b", "m", "2", "5">>, <<"t", "f", "i", "d", "f">>})
    => (res.ok /\ res = given)

(***************************************************************************)
(* C12 amended: rank_documents never raises for a method name, and every   *)
(* method whose lower-case form is not 'tfidf' (None, '', 'default',       *)
(* 'bm25' in any case, any other string) returns the ranked IDs and scores *)
(* of method 'bm25' for the same input.                                    *)
(***************************************************************************)
C12_FallsBackToBm25 ==
    RankedOnBuilt =>
        /\ res.ok
        /\ (~Truthy(call.method) \/ lower(call.method.str) # <<"t", "f", "i", "d", "f">>)
              => res = given

\* an unlisted method name ranks two matching documents of different length
\* with the BM25 scores
C12_Witness ==
    /\ RankedOnBuilt
    /\ call.method = PyStr(<<"x">>)
    /\ call.query = <<tx>> /\ call.ids = <<20, 10>>
    /\ res.ok /\ res = given
    /\ res.val.ranked = <<10, 20>>
    /\ ScoreLess(res.val.scores[2], res.val.scores[1])
    /\ ScoreLess(ZeroScore, res.val.scores[2])

(***************************************************************************)
(* One process building, rebuilding, removing, looking up and ranking in   *)
(* any order                                                               *)
(***************************************************************************)
\* os.remove(index_path), as the tests do when the file exists
remove_file(index_path) ==
    /\ disk[index_path] # NoPkg
    /\ call' = [op |-> "os.remove", path |-> index_path]
    /\ res' = Returned("None")
    /\ disk' = [disk EXCEPT ![index_path] = NoPkg]
    /\ built' = [built EXCEPT ![index_path] = NoPkg]
    /\ UNCHANGED <<cache, META_CACHE, DF_CACHE>>

\* three corpora that answer the probes differently, and two calls whose
\* doc_ids have the wrong length
CacheCorpora ==
    { [docs |-> <<<<ta, tab>>, <<ta>>>>, ids |-> Ids(<<3, 7>>)],
      [docs |-> <<<<tab>>, <<ta, ta>>>>, ids |-> NoIds],
      [docs |-> <<<<tab, ta>>>>, ids |-> Ids(<<3>>)],
      [docs |-> <<<<ta>>>>, ids |-> Ids(<<3, 7>>)],
      [docs |-> <<<<ta>>, <<tab>>>>, ids |-> Ids(<<>>)] }

CacheKeys == {StrKey(ta), StrKey(tz), TupKey(<<ta, tab>>)}
CacheGrams == {<<"a">>, <<"z">>}
CachePositions == {<<StrKey(ta), 3>>, <<StrKey(ta), 1>>, <<StrKey(tz), 3>>}

Lookups == {"get_posting_list", "find_wildcard_matches", "get_term_positions"}

\* the history: for each path the package the process loaded first
FirstLoaded(p) == IF given = NoInput THEN NoPkg ELSE given[p]

RecordFirstLoad ==
    given' = [p \in Paths |->
                IF FirstLoaded(p) = NoPkg /\ cache[p] = NoPkg /\ cache'[p] # NoPkg
                THEN disk[p] ELSE FirstLoaded(p)]

CacheBuildStep ==
    \E c \in CacheCorpora, p \in Paths :
        create_all_indexes(c.docs, p, c.ids) /\ RecordFirstLoad

CacheRemoveStep ==
    \E p \in Paths : remove_file(p) /\ RecordFirstLoad

CachePostingStep ==
    \E k \in CacheKeys, p \in Paths : get_posting_list(k, p) /\ RecordFirstLoad

CacheWildcardStep ==
    \E g \in CacheGrams, p \in Paths : find_wildcard_matches(g, p) /\ RecordFirstLoad

CachePositionsStep ==
    \E kd \in CachePositions, p \in Paths :
        get_term_positions(kd[1], kd[2], p) /\ RecordFirstLoad

CacheRankStep ==
    \E p \in Paths : rank_documents(<<ta>>, <<3, 0>>, p, PyNone) /\ RecordFirstLoad

NextCache ==
    \/ CacheBuildStep
    \/ CacheRemoveStep
    \/ CachePostingStep
    \/ CacheWildcardStep
    \/ CachePositionsStep
    \/ CacheRankStep

SpecCache == Init /\ [][NextCache]_vars

\* what a lookup call answers on a package
lookup_on(package, c) ==
    CASE c.op = "get_posting_list" -> posting_list(package, c.key)
      [] c.op = "find_wildcard_matches" -> wildcard_matches(package, c.gram)
      [] OTHER -> term_positions(package, c.key, c.did)

(***************************************************************************)
(* C13: once a lookup on a path has loaded the package, the cache entry of *)
(* the path stays that package for the rest of the process, and every      *)
(* later get_posting_list, find_wildcard_matches and get_term_positions on *)
(* the path answers from it, whatever is built or removed at the path      *)
(* afterwards.                                                             *)
(***************************************************************************)
C13_MemoizedPackageAnswers ==
    \A p \in Paths :
        FirstLoaded(p) # NoPkg =>
            /\ cache[p] = FirstLoaded(p)
            /\ (call.op \in Lookups /\ call.path = p)
                  => res = Returned(lookup_on(FirstLoaded(p), call))

\* a lookup after a rebuild answers what the first package holds, which is
\* not what the package now stored holds
C13_Witness ==
    /\ call.op = "get_posting_list"
    /\ FirstLoaded(call.path) # NoPkg
    /\ disk[call.path] # NoPkg
    /\ disk[call.path] # FirstLoaded(call.path)
    /\ res = Returned(posting_list(FirstLoaded(call.path), call.key))
    /\ res.val # posting_list(disk[call.path], call.key)

(***************************************************************************)
(* C14: on a loadable package the three lookups never raise, and a key the *)
(* package does not hold (a term or n-gram, a character n-gram, a document *)
(* ID under a term, or the term itself) is answered with the empty list.   *)
(***************************************************************************)
C14_AbsentKeysGiveEmptyList ==
    (call.op \in Lookups /\ cache[call.path] # NoPkg) =>
        LET package == cache[call.path]
        IN  /\ res.ok
            /\ (call.op = "get_posting_list" /\ call.key \notin DOMAIN package.unified)
                  => res.val = <<>>
            /\ (call.op = "find_wildcard_matches" /\ call.gram \notin DOMAIN package.wildcard)
                  => res.val = <<>>
            /\ (call.op = "get_term_positions" /\ call.key \notin DOMAIN package.proximity)
                  => res.val = <<>>
            /\ (call.op = "get_term_positions" /\ call.key \in DOMAIN package.proximity
                    /\ call.did \notin DOMAIN package.proximity[call.key])
                  => res.val = <<>>

\* a known term looked up under a document ID it does not occur in
C14_Witness ==
    /\ call.op = "get_term_positions"
    /\ cache[call.path] # NoPkg
    /\ call.key \in DOMAIN cache[call.path].proximity
    /\ call.did \notin DOMAIN cache[call.path].proximity[call.key]
    /\ res = Returned(<<>>)

\* the corpus with its i-th document under ID i, counted from 0
Enumerated(docs) == [docs |-> docs, ids |-> [i \in 1..Len(docs) |-> i - 1]]

(***************************************************************************)
(* C15: a create_all_indexes call whose doc_ids has another length than    *)
(* tokenized_docs raises and leaves the stored package and the in-process  *)
(* caches as they were; a call without doc_ids stores a package in which   *)
(* the i-th document has ID i, counted from 0.                             *)
(***************************************************************************)
C15_MismatchWritesNothing ==
    [][ call'.op = "create_all_indexes" =>
          /\ (call'.ids_given /\ call'.nids # call'.ndocs) =>
                /\ res' = Raised("ValueError")
                /\ UNCHANGED <<disk, cache, META_CACHE, DF_CACHE>>
          /\ ~call'.ids_given =>
                LET package == disk'[call'.path]
                    docs == built'[call'.path].docs
                IN  /\ res'.ok
                    /\ package # NoPkg
                    /\ DOMAIN package.META.doc_lengths = 0..(Len(docs) - 1)
                    /\ \A i \in 1..Len(docs) :
                          /\ package.META.doc_lengths[i - 1] = Len(docs[i])
                          /\ \A t \in Range(docs[i]) :
                                /\ AscendingListOf(posting_list(package, StrKey(t)),
                                                   DocsContaining(Enumerated(docs), <<t>>))
                                /\ Range(term_positions(package, StrKey(t), i - 1))
                                      = Offsets(docs[i], <<t>>)
      ]_vars

\* a call with two IDs for one document raised while a package was stored
\* and the three caches were filled
C15_Witness ==
    /\ call.op = "create_all_indexes"
    /\ call.ids_given /\ call.nids = 2 /\ call.ndocs = 1
    /\ res = Raised("ValueError")
    /\ disk[call.path] # NoPkg
    /\ cache[call.path] # NoPkg
    /\ META_CACHE[call.path] # NoMeta
    /\ DF_CACHE # EmptyDict

(***************************************************************************)
(* Detecting the type of every query made of a few units                   *)
(***************************************************************************)
MaxUnits == 3

sp == <<" ">>
qt == <<"\"">>
kNEAR1 == <<"N", "E", "A", "R", "/", "1">>

\* operands, lower-case words, keywords with and without a following blank,
\* NEAR with and without its distance, the star, quotes, whole phrases of
\* 1, 3 and 4 tokens, parentheses and the blank
DetectUnits ==
    { ta, ta \o sp, <<"o", "r">> \o sp, <<"n", "e", "a", "r">> \o sp,
      kAND, kAND \o sp, kOR \o sp, kNOT \o sp,
      kNEAR, kNEAR1, kNEAR1 \o sp,
      <<"*">>, qt, qt \o ta \o qt,
      <<"a", " ", "a", " ", "a">>, <<"a", " ", "a", " ", "a", " ", "a">>,
      kLP, kRP, sp }

RECURSIVE Concat(_)
Concat(units) == IF units = <<>> THEN <<>> ELSE Head(units) \o Concat(Tail(units))

\* the queries made of at most n units
DetectQueries(n) == {Concat(us) : us \in SeqsUpTo(DetectUnits, n)}

\* detect_query_type(query), called by a fresh process
detect(query) ==
    /\ call' = [op |-> "detect_query_type", query |-> query]
    /\ res' = detect_query_type(query)
    /\ given' = NoInput
    /\ UNCHANGED <<disk, cache, built, META_CACHE, DF_CACHE>>

DetectStep == call = NoCall /\ \E q \in DetectQueries(MaxUnits) : detect(q)

SpecDetect == Init /\ [][DetectStep]_vars

Detected == call.op = "detect_query_type"
Malformed == Raised("ValueError")

(***************************************************************************)
(* The notions the detector rules are stated in, read off the string       *)
(***************************************************************************)
QuotePositions(q) == {i \in 1..Len(q) : q[i] = "\""}

\* the k-th smallest element of a set of integers
Nth(S, k) == CHOOSE x \in S : Cardinality({y \in S : y < x}) = k - 1

\* the texts between the 1st and 2nd, the 3rd and 4th, ... quote
PhraseInsides(q) ==
    {SubSeq(q, Nth(QuotePositions(q), 2 * k - 1) + 1, Nth(QuotePositions(q), 2 * k) - 1) :
        k \in 1..(Cardinality(QuotePositions(q)) \div 2)}

\* the number of whitespace-separated tokens of a text
TokenCount(s) ==
    Cardinality({i \in 1..Len(s) : ~IsSpace(s[i]) /\ (i = 1 \/ IsSpace(s[i - 1]))})

ParensBalanced(q) ==
    /\ \A i \in 0..Len(q) :
          Count(SubSeq(q, 1, i), "(") >= Count(SubSeq(q, 1, i), ")")
    /\ Count(q, "(") = Count(q, ")")

\* the global checks: quotes paired, parentheses balanced, phrases of 1..3 tokens
FailsGlobalChecks(q) ==
    \/ Cardinality(QuotePositions(q)) % 2 = 1
    \/ ~ParensBalanced(q)
    \/ \E inside \in PhraseInsides(q) : TokenCount(inside) = 0 \/ TokenCount(inside) > 3

\* the 1-based positions at which the word w starts in q
OccurrencesOf(q, w) == {i \in 1..(Len(q) - Len(w) + 1) : SubSeq(q, i, i + Len(w) - 1) = w}

\* AND, OR or NOT standing as a word of its own
HasKeyword(q) ==
    \E w \in {kAND, kOR, kNOT} : \E i \in OccurrencesOf(q, w) :
        /\ (i = 1 \/ ~IsWordChar(q[i - 1]))
        /\ (i + Len(w) > Len(q) \/ ~IsWordChar(q[i + Len(w)]))

HasStar(q) == "*" \in Range(q)
HasQuote(q) == "\"" \in Range(q)
HasSpace(q) == \E i \in 1..Len(q) : IsSpace(q[i])
HasNEAR(q) == OccurrencesOf(q, kNEAR) # {}

\* the whitespace-separated tokens of q, as <<first, last>> positions
TokenSpans(q) ==
    {<<i, j>> \in (1..Len(q)) \X (1..Len(q)) :
        /\ i <= j
        /\ \A k \in i..j : ~IsSpace(q[k])
        /\ (i = 1 \/ IsSpace(q[i - 1]))
        /\ (j = Len(q) \/ IsSpace(q[j + 1]))}

AllUpper(w) == Len(w) >= 2 /\ \A i \in 1..Len(w) : w[i] \in Uppers

\* some whitespace-separated token is all upper-case, two letters or more
HasUpperToken(q) == \E sp2 \in TokenSpans(q) : AllUpper(SubSeq(q, sp2[1], sp2[2]))

QueryTypes == {"boolean", "wildcard", "proximity", "natural_language"}

(***************************************************************************)
(* C16: detect_query_type raises for every query with an odd number of     *)
(* quotes, unbalanced parentheses or a quoted phrase of 0 or more than 3   *)
(* tokens, whatever else it contains; for every other query it returns one *)
(* of the four types or raises.                                            *)
(***************************************************************************)
C16_GlobalChecksFirst ==
    Detected =>
        /\ FailsGlobalChecks(call.query) => res = Malformed
        /\ res = Malformed \/ (res.ok /\ res.val \in QueryTypes)

\* a four-token phrase is rejected, a three-token phrase is not
C16_Witness ==
    /\ Detected
    /\ call.query = qt \o <<"a", " ", "a", " ", "a", " ", "a">> \o qt
    /\ FailsGlobalChecks(call.query)
    /\ ~FailsGlobalChecks(qt \o <<"a", " ", "a", " ", "a">> \o qt)
    /\ res = Malformed

\* the positions at which NEAR/<digits> matches: NEAR, '/', a digit
NearPatternAt(q) ==
    {i \in OccurrencesOf(q, kNEAR) :
        i + 5 <= Len(q) /\ q[i + 4] = "/" /\ q[i + 5] \in Digits}

\* the position after the digits that start at position i
RECURSIVE AfterDigits(_, _)
AfterDigits(q, i) == IF i <= Len(q) /\ q[i] \in Digits THEN AfterDigits(q, i + 1) ELSE i

\* text that is not blank lies before position i and from position j on
TextOnBothSides(q, i, j) ==
    /\ \E k \in 1..(i - 1) : ~IsSpace(q[k])
    /\ \E k \in j..Len(q) : ~IsSpace(q[k])

C18_WildcardExactly ==
    (Detected /\ HasStar(call.query)) =>
        /\ res = Returned("wildcard") <=>
              /\ ~FailsGlobalChecks(call.query)
              /\ ~HasSpace(call.query)
              /\ ~HasQuote(call.query)
              /\ ~HasNEAR(call.query)
              /\ ~HasKeyword(call.query)
              /\ Range(call.query) # {"*"}
        /\ res # Returned("wildcard") => res = Malformed

\* AND glued to an operand is no keyword, so the pattern is a wildcard
C18_Witness ==
    /\ Detected
    /\ call.query = kAND \o <<"a", "*">>
    /\ ~HasKeyword(call.query)
    /\ HasKeyword(kAND \o <<"*">>)
    /\ res = Returned("wildcard")

\* the end of the bare word starting at position i: the characters up to the
\* next blank, quote or parenthesis
RECURSIVE WordEnd(_, _)
WordEnd(q, i) ==
    IF i < Len(q) /\ ~IsSpace(q[i + 1]) /\ q[i + 1] \notin {"\"", "(", ")"}
    THEN WordEnd(q, i + 1) ELSE i

\* the kind of a bare word
WordKind(w) ==
    IF w = kAND THEN "AND" ELSE IF w = kOR THEN "OR" ELSE IF w = kNOT THEN "NOT"
    ELSE IF AllUpper(w) THEN "upper" ELSE "operand"

\* the token stream of a query with paired quotes: phrases kept whole,
\* parentheses, keywords, all-upper-case words and operands
RECURSIVE TokenStream(_, _)
TokenStream(q, i) ==
    IF i > Len(q) THEN <<>>
    ELSE IF IsSpace(q[i]) THEN TokenStream(q, i + 1)
    ELSE IF q[i] \in {"(", ")"} THEN <<q[i]>> \o TokenStream(q, i + 1)
    ELSE IF q[i] = "\""
         THEN LET close == CHOOSE j \in QuotePositions(q) :
                              j > i /\ \A k \in QuotePositions(q) : k > i => j <= k
              IN  <<"phrase">> \o TokenStream(q, close + 1)
    ELSE <<WordKind(SubSeq(q, i, WordEnd(q, i)))>> \o TokenStream(q, WordEnd(q, i) + 1)

\* the structure rules on a token stream
BadStructure(ts) ==
    /\ ts # <<>>
    /\ \/ ts[1] \in {"AND", "OR"}
       \/ ts[Len(ts)] \in {"AND", "OR", "NOT"}
       \/ \E i \in 1..(Len(ts) - 1) :
             \/ ts[i] \in {"AND", "OR"} /\ ts[i + 1] \in {"AND", "OR"}
             \/ ts[i] = "NOT" /\ ts[i + 1] \in {"AND", "OR", "NOT"}
       \/ \E i \in 1..Len(ts) : ts[i] = "upper"

\* the query passes the global checks and has a keyword or a quote, no NEAR
\* and no '*'
ReachesBoolean(q) ==
    /\ ~FailsGlobalChecks(q)
    /\ HasKeyword(q) \/ HasQuote(q)
    /\ ~HasNEAR(q)
    /\ ~HasStar(q)

(***************************************************************************)
(* C19: a query that reaches boolean recognition is classified boolean     *)
(* exactly when its token stream (phrases whole, parentheses, keywords,    *)
(* operands) does not start with AND/OR, does not end with AND/OR/NOT, has *)
(* no AND/OR followed by AND/OR, no NOT followed by AND/OR/NOT and no      *)
(* all-upper-case word other than a keyword; otherwise it is rejected.     *)
(***************************************************************************)
C19_BooleanStructure ==
    (Detected /\ ReachesBoolean(call.query)) =>
        /\ res = Returned("boolean") <=> ~BadStructure(TokenStream(call.query, 1))
        /\ res # Returned("boolean") => res = Malformed

(***************************************************************************)
(* C20: a query is classified natural_language exactly when it passes the  *)
(* global checks and contains no '*', no NEAR, no upper-case keyword AND,  *)
(* OR, NOT, no quote and no all-upper-case token of two letters or more;   *)
(* lower-case 'or' and 'near' are ordinary words.                          *)
(***************************************************************************)
C20_NaturalLanguageExactly ==
    Detected =>
        (res = Returned("natural_language") <=>
            /\ ~FailsGlobalChecks(call.query)
            /\ ~HasStar(call.query)
            /\ ~HasNEAR(call.query)
            /\ ~HasKeyword(call.query)
            /\ ~HasQuote(call.query)
            /\ ~HasUpperToken(call.query))

\* lower-case operator words only
C20_Witness ==
    /\ Detected
    /\ call.query = <<"a", " ", "o", "r", " ", "n", "e", "a", "r", " ">>
    /\ res = Returned("natural_language")

(***************************************************************************)
(* Building one corpus at two paths, the documents in two orders           *)
(***************************************************************************)
MaxOrderDocs == 2

OrderPaths == {"p1", "p2"}

OrderDocs == {<<ta>>, <<ta, tab>>, <<tab, ta>>}

\* the corpora of at most MaxOrderDocs documents with one ID each; two
\* documents may share an ID
OrderCorpora ==
    UNION {{[docs |-> d, ids |-> i] : d \in [1..n -> OrderDocs], i \in [1..n -> IdPool]} :
              n \in 0..MaxOrderDocs}

InitOrder ==
    /\ disk = [p \in OrderPaths |-> NoPkg]
    /\ cache = [p \in OrderPaths |-> NoPkg]
    /\ built = [p \in OrderPaths |-> NoPkg]
    /\ call = NoCall
    /\ res = Returned("None")
    /\ given = NoInput
    /\ META_CACHE = [p \in OrderPaths |-> NoMeta]
    /\ DF_CACHE = EmptyDict

OrderFirstBuild ==
    /\ call = NoCall
    /\ \E c \in OrderCorpora :
          /\ create_all_indexes(c.docs, "p1", Ids(c.ids))
          /\ given' = NoInput

\* the same documents with the same IDs, in any order, at the second path
OrderSecondBuild ==
    /\ call.op = "create_all_indexes" /\ call.path = "p1"
    /\ \E f \in Permutations(1..Len(built["p1"].docs)) :
          /\ create_all_indexes([i \in 1..Len(built["p1"].docs) |-> built["p1"].docs[f[i]]],
                                "p2",
                                Ids([i \in 1..Len(built["p1"].docs) |-> built["p1"].ids[f[i]]]))
          /\ given' = NoInput

OrderPostingStep ==
    /\ disk["p2"] # NoPkg
    /\ \E k \in {StrKey(ta), TupKey(<<ta, tab>>)}, p \in OrderPaths :
          get_posting_list(k, p) /\ given' = NoInput

OrderWildcardStep ==
    /\ disk["p2"] # NoPkg
    /\ \E p \in OrderPaths : find_wildcard_matches(<<"a">>, p) /\ given' = NoInput

OrderPositionsStep ==
    /\ disk["p2"] # NoPkg
    /\ \E p \in OrderPaths : get_term_positions(StrKey(ta), 3, p) /\ given' = NoInput

NextOrder ==
    \/ OrderFirstBuild
    \/ OrderSecondBuild
    \/ OrderPostingStep
    \/ OrderWildcardStep
    \/ OrderPositionsStep

SpecOrder == InitOrder /\ [][NextOrder]_vars

\* how often the pair (ID, document) occurs in a corpus
PairCount(corpus, did, doc) ==
    Cardinality({i \in 1..Len(corpus.docs) : corpus.ids[i] = did /\ corpus.docs[i] = doc})

\* two corpora hold the same (ID, document) pairs
SamePairs(c1, c2) ==
    /\ Len(c1.docs) = Len(c2.docs)
    /\ \A i \in 1..Len(c1.docs) :
          PairCount(c1, c1.ids[i], c1.docs[i]) = PairCount(c2, c1.ids[i], c1.docs[i])

(***************************************************************************)
(* C21: two packages built from the same (document ID, tokens) pairs, in   *)
(* any order of the documents, answer get_posting_list,                    *)
(* find_wildcard_matches and get_term_positions alike for every key and    *)
(* document ID.                                                            *)
(***************************************************************************)
C21_OrderIndependent ==
    (built["p1"] # NoPkg /\ built["p2"] # NoPkg /\ SamePairs(built["p1"], built["p2"])) =>
        LET one == disk["p1"]
            two == disk["p2"]
        IN  /\ \A k \in DOMAIN one.unified \cup DOMAIN two.unified \cup {StrKey(tz)} :
                  posting_list(one, k) = posting_list(two, k)
            /\ \A g \in DOMAIN one.wildcard \cup DOMAIN two.wildcard \cup {<<"z">>} :
                  wildcard_matches(one, g) = wildcard_matches(two, g)
            /\ \A k \in DOMAIN one.proximity \cup DOMAIN two.proximity \cup {StrKey(tz)} :
                  \A d \in AllIds : term_positions(one, k, d) = term_positions(two, k, d)
            /\ (call.op \in Lookups /\ res.ok) =>
                  /\ res.val = lookup_on(one, call)
                  /\ res.val = lookup_on(two, call)

\* two different documents under one ID, built in both orders, and a lookup
\* of positions that both packages answer with two positions
C21_Witness ==
    /\ built["p1"] # NoPkg /\ built["p2"] # NoPkg
    /\ built["p1"].ids = <<3, 3>>
    /\ built["p1"].docs # built["p2"].docs
    /\ call.op = "get_term_positions" /\ call.path = "p2"
    /\ res.ok /\ Len(res.val) = 2
    /\ res.val = term_positions(disk["p1"], call.key, call.did)

(***************************************************************************)
(* Ranking on a copy of a package whose metadata lost N or avgdl           *)
(***************************************************************************)
\* meta.pop(field, None) for every field named
strip_meta(pkg, fields) ==
    [pkg EXCEPT !.META = [k \in (DOMAIN pkg.META) \ fields |-> pkg.META[k]]]

\* the copy of the package at src written to dst without the fields
dump_stripped(src, dst, fields) ==
    /\ disk' = [disk EXCEPT ![dst] = strip_meta(disk[src], fields)]
    /\ call' = [op |-> "dump_pkg", path |-> dst, dropped |-> fields]
    /\ res' = Returned("None")
    /\ UNCHANGED <<cache, built, META_CACHE, DF_CACHE>>

MetaBuildStep ==
    /\ call = NoCall
    /\ \E c \in RankCorpora :
          /\ create_all_indexes(c.docs, "p1", c.ids)
          /\ given' = NoInput

MetaStripStep ==
    /\ call.op = "create_all_indexes"
    /\ \E fields \in {{"N"}, {"avgdl"}, {"N", "avgdl"}} :
          /\ dump_stripped("p1", "p2", fields)
          /\ given' = NoInput

\* the first ranking on the copy
MetaRankStep ==
    /\ call.op = "dump_pkg"
    /\ \E q \in RankQueries,
          ids \in SeqsUpTo(Range(built["p1"].ids) \cup {99}, MaxCandidates) :
       \E method \in {PyStr(<<"b", "m", "2", "5">>), PyStr(<<"t", "f", "i", "d", "f">>)} :
          /\ rank_documents(q, ids, "p2", method)
          /\ given' = NoInput

NextMeta == MetaBuildStep \/ MetaStripStep \/ MetaRankStep

SpecMeta == InitOrder /\ [][NextMeta]_vars

\* two averages, each a total and a count, are the same number
SameAverage(a, b) == a[1] * b[2] = b[1] * a[2]

\* the mean of the values of a length map, 0.0 for the empty map
MeanLength(doc_lengths) ==
    IF DOMAIN doc_lengths = {} THEN <<0, 1>>
    ELSE <<SumLengths(doc_lengths, DOMAIN doc_lengths), Cardinality(DOMAIN doc_lengths)>>

\* rank_documents has just ranked a non-empty candidate list on the copy
RankedOnCopy ==
    call.op = "rank_documents" /\ call.path = "p2" /\ call.ids # <<>>

\* the ranking is a complete permutation of the candidates, scores aligned
CompleteRanking ==
    /\ res.ok
    /\ Len(res.val.ranked) = Len(call.ids)
    /\ \A v \in Range(call.ids) \cup Range(res.val.ranked) :
          Occurrences(res.val.ranked, v) = Occurrences(call.ids, v)
    /\ Len(res.val.scores) = Len(res.val.ranked)

(***************************************************************************)
(* C22: when the persisted metadata lacks N or avgdl, rank_documents does  *)
(* not fail and returns a complete permutation with aligned scores; a      *)
(* missing N is the number of entries of the length map, a missing avgdl   *)
(* their mean (0.0 when there are none); and on a package written by       *)
(* create_all_indexes these values equal the stored N and avgdl.           *)
(***************************************************************************)
C22_DerivedEqualsStored ==
    RankedOnCopy =>
        LET meta == META_CACHE["p2"]
            copy == disk["p2"].META
            stored == disk["p1"].META
        IN  /\ CompleteRanking
            /\ "N" \notin DOMAIN copy =>
                  meta.N = Cardinality(DOMAIN copy.doc_lengths)
            /\ "avgdl" \notin DOMAIN copy =>
                  SameAverage(meta.avgdl, MeanLength(copy.doc_lengths))
            /\ meta.N = stored.N
            /\ SameAverage(meta.avgdl, stored.avgdl)

\* the same on the corpora whose document IDs are pairwise different
C22_DerivedEqualsStoredDistinctIds ==
    (RankedOnCopy /\ Cardinality(Range(built["p1"].ids)) = Len(built["p1"].ids)) =>
        C22_DerivedEqualsStored

(***************************************************************************)
(* Threads of one process looking up the same path that is not cached yet: *)
(* the statements of _load_index of different threads interleave           *)
(***************************************************************************)
MaxThreads == 2

Threads == 1..MaxThreads

\* the lookups a thread may run, all on the one path
ThreadLookups ==
    { [op |-> "get_posting_list", key |-> StrKey(ta), path |-> "p1"],
      [op |-> "find_wildcard_matches", gram |-> <<"a">>, path |-> "p1"],
      [op |-> "get_term_positions", key |-> StrKey(ta), did |-> 3, path |-> "p1"] }

NoResult == [pending |-> TRUE]

\* a thread about to enter _load_index: its local variable package is not
\* bound, it has loaded nothing, it has not answered
started(lookup) ==
    lookup @@ [pc |-> "check", package |-> NoPkg, loaded |-> FALSE, result |-> NoResult]

ThreadBuildStep ==
    /\ call = NoCall
    /\ \E c \in CacheCorpora :
          /\ create_all_indexes(c.docs, "p1", c.ids)
          /\ given' = NoInput

ThreadStartStep ==
    /\ call.op = "create_all_indexes"
    /\ \E lookups \in [Threads -> ThreadLookups] :
          call' = [op |-> "threads", th |-> [t \in Threads |-> started(lookups[t])]]
    /\ UNCHANGED <<disk, cache, built, res, given, META_CACHE, DF_CACHE>>

\* the thread t moves to the record th; nothing but the cache may change
thread_moves(t, th) ==
    /\ call' = [call EXCEPT !.th[t] = th]
    /\ UNCHANGED <<disk, built, res, given, META_CACHE, DF_CACHE>>

\* line 23-24: if index_path in _INDEX_CACHE: return _INDEX_CACHE[index_path]
thread_check(t) ==
    LET th == call.th[t]
    IN  /\ th.pc = "check"
        /\ thread_moves(t, IF cache[th.path] # NoPkg
                           THEN [th EXCEPT !.pc = "lookup", !.package = cache[th.path]]
                           ELSE [th EXCEPT !.pc = "exists"])
        /\ UNCHANGED cache

\* line 28-29: if not os.path.exists(index_path): raise FileNotFoundError
thread_exists(t) ==
    LET th == call.th[t]
    IN  /\ th.pc = "exists"
        /\ thread_moves(t, IF disk[th.path] = NoPkg
                           THEN [th EXCEPT !.pc = "done", !.result = Raised("FileNotFoundError")]
                           ELSE [th EXCEPT !.pc = "load"])
        /\ UNCHANGED cache

\* line 31: package = load(index_path)
thread_load(t) ==
    LET th == call.th[t]
    IN  /\ th.pc = "load"
        /\ thread_moves(t, [th EXCEPT !.pc = "store", !.package = disk[th.path],
                                      !.loaded = TRUE])
        /\ UNCHANGED cache

\* the store left out
cache_on_store_forgotten(index_path, package) == cache

\* line 36: _INDEX_CACHE[index_path] = package
cache_on_store(index_path, package) == [cache EXCEPT ![index_path] = package]

thread_store(t) ==
    LET th == call.th[t]
    IN  /\ th.pc = "store"
        /\ thread_moves(t, [th EXCEPT !.pc = "lookup"])
        /\ cache' = cache_on_store(th.path, th.package)

\* the body of the public function on the package _load_index returned
thread_lookup(t) ==
    LET th == call.th[t]
    IN  /\ th.pc = "lookup"
        /\ thread_moves(t, [th EXCEPT !.pc = "done",
                                      !.result = Returned(lookup_on(th.package, th))])
        /\ UNCHANGED cache

ThreadStep ==
    /\ call.op = "threads"
    /\ \E t \in Threads :
          \/ thread_check(t)
          \/ thread_exists(t)
          \/ thread_load(t)
          \/ thread_store(t)
          \/ thread_lookup(t)

NextThreads == ThreadBuildStep \/ ThreadStartStep \/ ThreadStep

SpecThreads == InitOrder /\ [][NextThreads]_vars

\* what the lookup answers when it runs alone
sequential_result(lookup) ==
    IF disk[lookup.path] = NoPkg THEN Raised("FileNotFoundError")
    ELSE Returned(lookup_on(disk[lookup.path], lookup))

(***************************************************************************)
(* C23: threads that look up the same uncached path concurrently, the      *)
(* persisted package unchanged, each return what the lookup returns when   *)
(* run alone, in every interleaving of their check, load and store steps;  *)
(* a redundant load only populates the cache, and when all have returned   *)
(* the cache holds exactly one entry, equal to the persisted package.      *)
(***************************************************************************)
C23_RacingLookupsSafe ==
    call.op = "threads" =>
        /\ \A t \in Threads :
              call.th[t].pc = "done" => call.th[t].result = sequential_result(call.th[t])
        /\ \A p \in OrderPaths : cache[p] \in {NoPkg, disk[p]}
        /\ cache["p2"] = NoPkg
        /\ (disk["p1"] # NoPkg /\ \A t \in Threads : call.th[t].pc = "done") =>
              cache["p1"] = disk["p1"]

\* every thread missed the cache and loaded the package itself, and every
\* thread has returned a non-empty list
C23_Witness ==
    /\ call.op = "threads"
    /\ \A t \in Threads :
          /\ call.th[t].pc = "done"
          /\ call.th[t].loaded
          /\ call.th[t].result.ok
          /\ call.th[t].result.val # <<>>

\* the length stored for a document ID of the package now on storage
stored_length(index_path, d) == disk[index_path].META.doc_lengths[d]

\* the candidates a and b of the call have the same term frequency for
\* every query term, a query term with df > 0 occurs in them, both have a
\* stored length and a's is the smaller
ShorterOfEqualTf(a, b) ==
    LET package == disk[call.path]
    IN  /\ {a, b} \subseteq DOMAIN package.META.doc_lengths
        /\ \A t \in Range(call.query) : tf(t, a, package) = tf(t, b, package)
        /\ \E t \in Range(call.query) :
              Len(posting_list(package, StrKey(t))) > 0 /\ tf(t, a, package) > 0
        /\ stored_length(call.path, a) < stored_length(call.path, b)

\* a is ranked before b with a strictly higher score
RankedStrictlyFirst(a, b) ==
    \E i, j \in 1..Len(res.val.ranked) :
        /\ res.val.ranked[i] = a /\ res.val.ranked[j] = b
        /\ i < j
        /\ ScoreLess(res.val.scores[j], res.val.scores[i])

(***************************************************************************)
(* C24: under BM25, of two candidates with the same term frequency for     *)
(* every query term and at least one matching term with df > 0, the one    *)
(* with the smaller stored length gets the strictly higher score and is    *)
(* ranked first.                                                           *)
(***************************************************************************)
C24_ShorterRanksFirst ==
    (RankedOnBuilt /\ chosen_method(call.method) = "bm25") =>
        /\ res.ok
        /\ \A a, b \in Range(call.ids) :
              ShorterOfEqualTf(a, b) => RankedStrictlyFirst(a, b)

\* the same on the corpora whose document IDs are pairwise different
C24_ShorterRanksFirstDistinctIds ==
    (RankedOnBuilt /\ Cardinality(Range(built[call.path].ids)) = Len(built[call.path].ids)) =>
        C24_ShorterRanksFirst

(***************************************************************************)
(* Boolean evaluation of every token sequence of bounded length, well      *)
(* formed or not                                                           *)
(***************************************************************************)
MaxAnyTokens == 4

\* a bare term, a two-token phrase, a one-token phrase spelled like an
\* operator, the operators and the parentheses
AnyTokens == {ta, Quote(ta \o <<" ">> \o tb), Quote(kNOT), kAND, kOR, kNOT, kLP, kRP}

\* the texts joined by single spaces
RECURSIVE Spaced(_)
Spaced(texts) ==
    IF texts = <<>> THEN <<>>
    ELSE IF Len(texts) = 1 THEN texts[1]
    ELSE texts[1] \o <<" ">> \o Spaced(Tail(texts))

AnyBuildStep ==
    /\ call = NoCall
    /\ \E c \in BoolCorpora, p \in Paths :
          /\ create_all_indexes(c.docs, p, Ids(c.ids))
          /\ given' = NoInput

\* the process that built the package evaluates one token sequence on it
AnyBooleanStep ==
    /\ call.op = "create_all_indexes"
    /\ \E texts \in SeqsUpTo(AnyTokens, MaxAnyTokens), p \in Paths :
          /\ process_boolean_query(Spaced(texts), p)
          /\ given' = texts

NextBoolAny == AnyBuildStep \/ AnyBooleanStep

SpecBoolAny == Init /\ [][NextBoolAny]_vars

\* a ")" with no "(" open, or a "(" still open at the end
RECURSIVE ParenError(_, _, _)
ParenError(tokens, i, open) ==
    IF i > Len(tokens) THEN open > 0
    ELSE IF tokens[i] = kLP THEN ParenError(tokens, i + 1, open + 1)
    ELSE IF tokens[i] = kRP THEN open = 0 \/ ParenError(tokens, i + 1, open - 1)
    ELSE ParenError(tokens, i + 1, open)

\* on the postfix form, with n values on the stack before item i: AND or OR
\* applied to fewer than two values, NOT applied to none, or another number
\* of values than one at the end
RECURSIVE StackError(_, _, _)
StackError(rpn, i, n) ==
    IF i > Len(rpn) THEN n # 1
    ELSE IF rpn[i] = StrKey(kNOT) THEN n = 0 \/ StackError(rpn, i + 1, n)
    ELSE IF rpn[i] \in {StrKey(kAND), StrKey(kOR)} THEN n < 2 \/ StackError(rpn, i + 1, n - 1)
    ELSE StackError(rpn, i + 1, n + 1)

\* process_boolean_query has just evaluated call.query on a built package
EvaluatedBoolean == call.op = "process_boolean_query" /\ built[call.path] # NoPkg

(***************************************************************************)
(* C25: on an existing package process_boolean_query raises exactly when   *)
(* the postfix conversion meets a ")" with no "(" open or ends with a "("   *)
(* open, or the evaluation applies AND or OR to fewer than two values, NOT *)
(* to an empty stack, or ends with a number of values other than one (the  *)
(* empty token stream included); otherwise it returns a set of IDs.        *)
(***************************************************************************)
C25_RaisesExactlyWhenMalformed ==
    EvaluatedBoolean =>
        LET tokens == RE_TOKEN_findall(call.query)
        IN  IF ParenError(tokens, 1, 0) \/ StackError(to_rpn(tokens).val, 1, 0)
            THEN res = Raised("ValueError")
            ELSE res.ok /\ res.val \subseteq Range(built[call.path].ids)

\* two operands side by side leave two values on the stack: the call raises
C25_Witness ==
    /\ EvaluatedBoolean
    /\ given = <<ta, ta>>
    /\ ~ParenError(RE_TOKEN_findall(call.query), 1, 0)
    /\ res = Raised("ValueError")

\* the postings key of an operand text: the k tokens inside the quotes as a
\* single-term key for k = 1 and as a k-tuple key otherwise, a bare token
\* as itself
OperandKey(text) ==
    IF text = Quote(ta \o <<" ">> \o tb) THEN TupKey(<<ta, tb>>)
    ELSE IF text = Quote(kNOT) THEN StrKey(kNOT)
    ELSE StrKey(text)

\* the token sequence with every one-token phrase spelled like an operator
\* replaced by a one-token phrase of an ordinary term that, like it, occurs
\* in no document
WithOrdinaryPhrases(texts) ==
    [i \in 1..Len(texts) |-> IF texts[i] = Quote(kNOT) THEN Quote(tz) ELSE texts[i]]

(***************************************************************************)
(* C26: every quoted phrase is evaluated as an operand whatever its        *)
(* content, under the key of its inner tokens; a quoted one-token phrase   *)
(* spelled AND, OR or NOT is a term and not an operator, so the query      *)
(* evaluates as it does with any other one-token phrase of equal postings  *)
(* in its place.                                                           *)
(***************************************************************************)
C26_QuotedPhraseIsOperand ==
    EvaluatedBoolean =>
        /\ \A i \in 1..Len(given) :
              ~IsOperatorOrParen(given[i]) => bool_as_key(given[i]) = OperandKey(given[i])
        /\ res = boolean_result(Spaced(WithOrdinaryPhrases(given)), disk[call.path])

\* the same, for the queries without a phrase spelled like an operator
C26_HoldsWithoutKeywordPhrases ==
    (EvaluatedBoolean /\ Quote(kNOT) \notin Range(given)) => C26_QuotedPhraseIsOperand

(***************************************************************************)
(* C27: in every sequence of builds, lookups and rankings on a path in one *)
(* process, the corpus statistics rank_documents uses for the path and the *)
(* postings and positions it reads for the path come from the same build   *)
(* of the package, also when the path is rebuilt with another corpus       *)
(* between the operations.                                                 *)
(***************************************************************************)
C27_StatisticsAndPostingsOfOneBuild ==
    \A p \in Paths :
        (call.op = "rank_documents" /\ call.path = p /\ res.ok
            /\ META_CACHE[p] # NoMeta /\ cache[p] # NoPkg)
        => META_CACHE[p] = load_meta(cache[p])

(***************************************************************************)
(* The router on every query the detector is probed with                   *)
(***************************************************************************)
RouteBuildStep ==
    /\ call = NoCall
    /\ \E c \in BoolCorpora :
          /\ create_all_indexes(c.docs, "p1", Ids(c.ids))
          /\ given' = NoInput

\* the process that built the package routes one query
RouteStep ==
    /\ call.op = "create_all_indexes"
    /\ \E q \in DetectQueries(MaxUnits) :
          /\ process_query(q, "p1")
          /\ given' = detect_query_type(q)

NextRoute == RouteBuildStep \/ RouteStep

SpecRoute == Init /\ [][NextRoute]_vars

\* process_query has just routed a query of the given detected type
Routed(qtype) == call.op = "process_query" /\ given = Returned(qtype)

(***************************************************************************)
(* C28: every query detect_query_type classifies as boolean is evaluated   *)
(* by process_boolean_query without raising.                               *)
(***************************************************************************)
C28_BooleanQueriesEvaluate ==
    Routed("boolean") => res.ok

\* the one NEAR/k occurrence the detector accepted: its trimmed left
\* operand, its k and its trimmed right operand
detected_near(query) ==
    LET m == near_matches(query)[1]
    IN  [left |-> Strip(Slice(query, 0, m[1])),
         k |-> IntOf(Slice(query, m[1] + 5, m[2])),
         right |-> Strip(Slice(query, m[2], Len(query)))]

(***************************************************************************)
(* C29: every query detect_query_type classifies as proximity is accepted  *)
(* by the re-validation of process_proximity_query, which parses the same  *)
(* NEAR/k occurrence, the same k and the same trimmed operands as the      *)
(* detector.                                                               *)
(***************************************************************************)
C29_ProximityQueriesParse ==
    Routed("proximity") =>
        /\ parse_near(call.query) = Returned(detected_near(call.query))
        /\ res.ok

\* the same, for the queries whose NEAR/k stands between blanks
C29_HoldsForSpacedNear ==
    (Routed("proximity") /\ Contains(call.query, sp \o kNEAR1 \o sp)) =>
        C29_ProximityQueriesParse

\* the stacks the evaluation of the postfix form goes through from item i
\* on, up to its end or to the item that raises
RECURSIVE eval_stacks(_, _, _, _, _)
eval_stacks(rpn, i, stack, package, universe) ==
    IF i > Len(rpn) THEN {stack}
    ELSE LET st == eval_step(rpn[i], stack, package, universe)
         IN  IF ~st.ok THEN {stack}
             ELSE {stack} \cup eval_stacks(rpn, i + 1, st.val, package, universe)

\* the tokens of an operand text
OperandTokens(text) ==
    IF text = Quote(ta \o <<" ">> \o tb) THEN <<ta, tb>>
    ELSE IF text = Quote(kNOT) THEN <<kNOT>>
    ELSE <<text>>

\* U: the documents holding some operand of the token sequence
QueryUniverse(texts, corpus) ==
    UNION {DocsContaining(corpus, OperandTokens(texts[i])) :
              i \in {j \in 1..Len(texts) : ~IsOperatorOrParen(texts[j])}}

(***************************************************************************)
(* C30: at every step of the postfix evaluation every set on the stack is  *)
(* a subset of the query universe U, the union of the postings of the      *)
(* operands of the query; so the result of process_boolean_query is a      *)
(* subset of U, and 'NOT A' alone returns the empty set.                   *)
(***************************************************************************)
C30_StackWithinUniverse ==
    EvaluatedBoolean =>
        LET tokens == RE_TOKEN_findall(call.query)
            package == disk[call.path]
            U == QueryUniverse(given, built[call.path])
            rpn == to_rpn(tokens)
        IN  /\ rpn.ok =>
                  \A stack \in eval_stacks(rpn.val, 1, <<>>, package,
                                           collect_universe(tokens, package)) :
                      \A k \in 1..Len(stack) : stack[k] \subseteq U
            /\ res.ok => res.val \subseteq U
            /\ given = <<kNOT, ta>> => res = Returned({})

\* 'NOT a' on a corpus with documents that hold a, which are the whole
\* universe of the query: the result is the empty set
C30_Witness ==
    /\ EvaluatedBoolean
    /\ given = <<kNOT, ta>>
    /\ QueryUniverse(given, built[call.path]) # {}
    /\ res = Returned({})

====
